---- MODULE Spec2Model ----
(***************************************************************************)
(* A model of servo's components/script/textinput.rs: the editable state   *)
(* of a single- or multi-line text control (TextInput<T>), its selection,  *)
(* its mutation operations, its caret navigation and its key dispatch.     *)
(*                                                                         *)
(* A Rust string is modelled as the sequence of its code points; every     *)
(* index of the program is a UTF-8 byte offset, so the byte length of a    *)
(* code point (Utf8Len) and its UTF-16 length (Utf16Len) are kept, and a   *)
(* slice at an offset that is not a character boundary panics, as it does  *)
(* in Rust.  A panic ends the life of the object: the variable `panicked`  *)
(* becomes TRUE and no operation is applied afterwards.                    *)
(***************************************************************************)
EXTENDS Integers, Sequences, FiniteSets, TLC

VARIABLES lines, edit_point, selection_origin, selection_direction,
          multiline, max_length, clipboard, debug_assertions, macos,
          panicked, hist

vars == <<lines, edit_point, selection_origin, selection_direction,
          multiline, max_length, clipboard, debug_assertions, macos,
          panicked, hist>>

(***************************************************************************)
(* Bounds of the model.                                                    *)
(***************************************************************************)
\* the largest content, in UTF-8 bytes (line breaks included), an action may build
MaxLen == 3
\* the largest max_length an input is constructed with
MaxMaxLength == 2
\* the largest byte delta / offset handed to adjust_horizontal and set_selection_range
MaxDelta == 3
\* the largest content, in UTF-8 bytes, built where max_length is checked (SpecUtf16)
MaxLen16 == 6

(***************************************************************************)
(* Code points.  "a" is U+0061, "SP" is U+0020, "E" is U+00E9 (two bytes), *)
(* "G" is U+1F600 (four bytes, a surrogate pair in UTF-16), "M" is U+0301  *)
(* (a combining mark, two bytes), "NL" is '\n' and "CR" is '\r'.           *)
(***************************************************************************)
Char == {"a", "SP", "E", "G", "M", "NL", "CR"}

\* char::len_utf8
Utf8Len(c) == CASE c = "E" -> 2 [] c = "M" -> 2 [] c = "G" -> 4 [] OTHER -> 1

\* char::len_utf16
Utf16Len(c) == IF c = "G" THEN 2 ELSE 1

\* char::is_alphabetic() || char::is_numeric()
IsAlphanumeric(c) == c \in {"a", "E"}

Min(a, b) == IF a <= b THEN a ELSE b
Max(a, b) == IF a >= b THEN a ELSE b
Abs(a) == IF a < 0 THEN -a ELSE a

\* Option<T>: None is the empty sequence, Some(x) is <<x>>
None == <<>>
Some(x) == <<x>>
IsSome(o) == o # <<>>
Unwrap(o) == o[1]

\* usize is modelled with 30 bits: TLC's integers have 32, and every value the
\* bounded model forms is far below 2^30, so wrapping behaves as with 64.
UsizeBits == 30
usize_MAX == 2^UsizeBits - 1

(***************************************************************************)
(* str: byte lengths, character boundaries and slices.                     *)
(***************************************************************************)
RECURSIVE StrLen(_)
\* str::len(): the length in UTF-8 bytes
StrLen(s) == IF s = <<>> THEN 0 ELSE Utf8Len(Head(s)) + StrLen(Tail(s))

RECURSIVE Utf16StrLen(_)
\* s.chars().map(char::len_utf16).sum()
Utf16StrLen(s) == IF s = <<>> THEN 0 ELSE Utf16Len(Head(s)) + Utf16StrLen(Tail(s))

\* str::is_char_boundary(i)
IsCharBoundary(s, i) == \E k \in 0..Len(s) : StrLen(SubSeq(s, 1, k)) = i

\* the number of code points before byte offset i (i a character boundary)
CharsBefore(s, i) == CHOOSE k \in 0..Len(s) : StrLen(SubSeq(s, 1, k)) = i

\* &s[a..b] is defined (does not panic)
CanSlice(s, a, b) == a <= b /\ IsCharBoundary(s, a) /\ IsCharBoundary(s, b)

\* &s[a..b]
Slice(s, a, b) == SubSeq(s, CharsBefore(s, a) + 1, CharsBefore(s, b))

\* &s[..i]
SliceTo(s, i) == Slice(s, 0, i)

\* &s[i..]
SliceFrom(s, i) == Slice(s, i, StrLen(s))

RECURSIVE ReplaceCrLf(_)
\* content.replace("\r\n", "\n")
ReplaceCrLf(s) ==
    IF s = <<>> THEN <<>>
    ELSE IF Len(s) >= 2 /\ s[1] = "CR" /\ s[2] = "NL"
         THEN <<"NL">> \o ReplaceCrLf(SubSeq(s, 3, Len(s)))
         ELSE <<Head(s)>> \o ReplaceCrLf(Tail(s))

RECURSIVE SplitOn(_, _)
\* s.split(|c| c \in seps).collect(): always at least one piece
SplitOn(s, seps) ==
    IF \A k \in 1..Len(s) : s[k] \notin seps THEN <<s>>
    ELSE LET k == CHOOSE i \in 1..Len(s) :
                      s[i] \in seps /\ \A j \in 1..(i - 1) : s[j] \notin seps
         IN  <<SubSeq(s, 1, k - 1)>> \o SplitOn(SubSeq(s, k + 1, Len(s)), seps)

(***************************************************************************)
(* TextPoint, with the derived lexicographic order.                        *)
(***************************************************************************)
TextPoint(l, i) == [line |-> l, index |-> i]

\* TextPoint::default()
DefaultTextPoint == TextPoint(0, 0)

\* #[derive(PartialOrd)]: a <= b
PointLe(a, b) == a.line < b.line \/ (a.line = b.line /\ a.index <= b.index)

SelectionDirections == {"Forward", "Backward", "None"}

(***************************************************************************)
(* The TextInput value the operations work on.  Lines are numbered from 0  *)
(* in the program; Line(t, l) is self.lines[l].                            *)
(***************************************************************************)
Self == [lines |-> lines, edit_point |-> edit_point,
         selection_origin |-> selection_origin,
         selection_direction |-> selection_direction,
         multiline |-> multiline, max_length |-> max_length,
         clipboard |-> clipboard, debug_assertions |-> debug_assertions,
         macos |-> macos, panic |-> panicked]

\* a panic!: an index out of range, a slice off a character boundary, a failed assertion
Panic(t) == [t EXCEPT !.panic = TRUE]

\* self.lines[l]
Line(t, l) == t.lines[l + 1]

\* l is a valid index of self.lines
LineOk(t, l) == l >= 0 /\ l < Len(t.lines)

\* the point lies in a line of the buffer, within that line
PointInBounds(t, p) == LineOk(t, p.line) /\ p.index <= StrLen(Line(t, p.line))

\* the conditions of assert_ok_selection
OkSelection(t) ==
    /\ IsSome(t.selection_origin) =>
          LET begin == Unwrap(t.selection_origin)
          IN  /\ PointInBounds(t, begin)
              /\ IF t.selection_direction = "Backward"
                 THEN PointLe(t.edit_point, begin)
                 ELSE PointLe(begin, t.edit_point)
    /\ PointInBounds(t, t.edit_point)

\* debug_assert!s: they only exist in a build with debug assertions
assert_ok_selection(t) ==
    IF t.debug_assertions /\ ~OkSelection(t) THEN Panic(t) ELSE t

selection_origin_or_edit_point(t) ==
    IF IsSome(t.selection_origin) THEN Unwrap(t.selection_origin) ELSE t.edit_point

selection_start(t) ==
    IF t.selection_direction = "Backward" THEN t.edit_point
    ELSE selection_origin_or_edit_point(t)

selection_end(t) ==
    IF t.selection_direction = "Backward" THEN selection_origin_or_edit_point(t)
    ELSE t.edit_point

has_selection(t) == IsSome(t.selection_origin)

\* clear_selection that forgets to reset the direction
clear_selection_keeps_direction(t) == [t EXCEPT !.selection_origin = None]

clear_selection(t) ==
    [t EXCEPT !.selection_origin = None, !.selection_direction = "None"]

RECURSIVE SumSeq(_)
\* iter().fold(0, |m, x| m + x)
SumSeq(q) == IF q = <<>> THEN 0 ELSE Head(q) + SumSeq(Tail(q))

\* The length of the content in bytes
len(t) == SumSeq([i \in 1..Len(t.lines) |-> StrLen(t.lines[i]) + 1]) - 1

\* The length of the content in UTF-16 code units
utf16_len(t) == SumSeq([i \in 1..Len(t.lines) |-> Utf16StrLen(t.lines[i]) + 1]) - 1

\* The length of the content in chars
char_count(t) == SumSeq([i \in 1..Len(t.lines) |-> Len(t.lines[i]) + 1]) - 1

\* self.lines[self.edit_point.line].len(); panics when the line does not exist
current_line_length(t) == StrLen(Line(t, t.edit_point.line))

RECURSIVE JoinLines(_, _)
\* lines 1..n joined by '\n'
JoinLines(ls, n) ==
    IF n = 0 THEN <<>>
    ELSE IF n = 1 THEN ls[1]
    ELSE JoinLines(ls, n - 1) \o <<"NL">> \o ls[n]

\* get_content with a '\n' after every line, the last one included
get_content_trailing_newline(t) ==
    IF t.lines = <<>> THEN <<>> ELSE JoinLines(t.lines, Len(t.lines)) \o <<"NL">>

get_content(t) == JoinLines(t.lines, Len(t.lines))

is_empty(t) == Len(t.lines) <= 1 /\ (Len(t.lines) = 0 \/ t.lines[1] = <<>>)

\* the new value of self.lines in set_content
ContentLines(t, content) ==
    IF t.multiline THEN SplitOn(ReplaceCrLf(content), {"NL", "CR"})
    ELSE <<content>>

\* set_content that leaves the selection origin in place
set_content_keeps_selection(t, content, update_text_cursor) ==
    LET t1 == [t EXCEPT !.lines = ContentLines(t, content)]
        l  == Min(t1.edit_point.line, Len(t1.lines) - 1)
    IN  assert_ok_selection(
            IF update_text_cursor
            THEN [t1 EXCEPT !.edit_point =
                     TextPoint(l, Min(t1.edit_point.index, StrLen(Line(t1, l))))]
            ELSE t1)

\* set_content that never clamps the edit point
set_content_without_clamp(t, content, update_text_cursor) ==
    assert_ok_selection([t EXCEPT !.lines = ContentLines(t, content),
                                  !.selection_origin = None])

set_content(t, content, update_text_cursor) ==
    LET t1 == [t EXCEPT !.lines = ContentLines(t, content)]
        l  == Min(t1.edit_point.line, Len(t1.lines) - 1)
        t2 == IF update_text_cursor
              THEN [t1 EXCEPT !.edit_point =
                       TextPoint(l, Min(t1.edit_point.index, StrLen(Line(t1, l))))]
              ELSE t1
    IN  assert_ok_selection([t2 EXCEPT !.selection_origin = None])

\* TextInput::new
new(lns, initial, clip, maxlen, dir, dbg, mac) ==
    set_content([lines |-> <<>>, edit_point |-> DefaultTextPoint,
                 selection_origin |-> None, selection_direction |-> dir,
                 multiline |-> lns = "Multiple", max_length |-> maxlen,
                 clipboard |-> clip, debug_assertions |-> dbg,
                 macos |-> mac, panic |-> FALSE],
                initial, FALSE)

RECURSIVE OffsetBefore(_, _)
\* the fold of text_point_to_offset: sum of len + 1 over the first n lines
OffsetBefore(ls, n) ==
    IF n = 0 THEN 0 ELSE OffsetBefore(ls, n - 1) + StrLen(ls[n]) + 1

text_point_to_offset(t, text_point) ==
    OffsetBefore(t.lines, Min(text_point.line, Len(t.lines))) + text_point.index

RECURSIVE OffsetFoldStrict(_, _, _, _, _)
\* the fold of offset_to_text_point with abs_point > new_acc for abs_point >= new_acc
OffsetFoldStrict(ls, i, last_line_idx, abs_point, st) ==
    IF i >= Len(ls) THEN st
    ELSE IF i # last_line_idx
    THEN LET line_end == StrLen(ls[i + 1])
             new_acc  == st.acc + line_end + 1
         IN  OffsetFoldStrict(ls, i + 1, last_line_idx, abs_point,
                 IF abs_point > new_acc /\ st.index > line_end
                 THEN [acc |-> new_acc, index |-> st.index - (line_end + 1),
                       line |-> st.line + 1]
                 ELSE [st EXCEPT !.acc = new_acc])
    ELSE OffsetFoldStrict(ls, i + 1, last_line_idx, abs_point, st)

RECURSIVE OffsetFold(_, _, _, _, _)
\* the fold of offset_to_text_point from line i (0-based) on; st = [acc, index, line]
OffsetFold(ls, i, last_line_idx, abs_point, st) ==
    IF i >= Len(ls) THEN st
    ELSE IF i # last_line_idx
    THEN LET line_end == StrLen(ls[i + 1])
             new_acc  == st.acc + line_end + 1
         IN  OffsetFold(ls, i + 1, last_line_idx, abs_point,
                 IF abs_point >= new_acc /\ st.index > line_end
                 THEN [acc |-> new_acc, index |-> st.index - (line_end + 1),
                       line |-> st.line + 1]
                 ELSE [st EXCEPT !.acc = new_acc])
    ELSE OffsetFold(ls, i + 1, last_line_idx, abs_point, st)

offset_to_text_point(t, abs_point) ==
    LET r == OffsetFold(t.lines, 0, Len(t.lines) - 1, abs_point,
                        [acc |-> 0, index |-> abs_point, line |-> 0])
    IN  TextPoint(r.line, r.index)

selection_start_offset(t) == text_point_to_offset(t, selection_start(t))

selection_end_offset(t) == text_point_to_offset(t, selection_end(t))

(***************************************************************************)
(* Selected text and replace_selection.  An operation that returns a value *)
(* and may panic yields [panic |-> , val |-> ].                            *)
(***************************************************************************)
RECURSIVE MiddleLines(_, _, _)
\* the callbacks of `for line in &self.lines[from .. to]`: "\n" then the line
MiddleLines(t, from, to) ==
    IF from >= to THEN <<>>
    ELSE <<"NL">> \o Line(t, from) \o MiddleLines(t, from + 1, to)

\* the slices fold_selection_slices hands to its callback, concatenated
fold_selection_slices(t) ==
    IF ~has_selection(t) THEN [panic |-> FALSE, val |-> <<>>]
    ELSE
    LET start == selection_start(t)
        end   == selection_end(t)
        boom  == [panic |-> TRUE, val |-> <<>>]
    IN  IF start.line = end.line
        THEN IF LineOk(t, start.line)
                  /\ CanSlice(Line(t, start.line), start.index, end.index)
             THEN [panic |-> FALSE,
                   val |-> Slice(Line(t, start.line), start.index, end.index)]
             ELSE boom
        ELSE IF ~LineOk(t, start.line) THEN boom
        ELSE IF ~IsCharBoundary(Line(t, start.line), start.index) THEN boom
        ELSE IF start.line + 1 > end.line \/ end.line > Len(t.lines) THEN boom
        ELSE IF ~LineOk(t, end.line) THEN boom
        ELSE IF ~IsCharBoundary(Line(t, end.line), end.index) THEN boom
        ELSE [panic |-> FALSE,
              val |-> SliceFrom(Line(t, start.line), start.index)
                      \o MiddleLines(t, start.line + 1, end.line)
                      \o <<"NL">>
                      \o SliceTo(Line(t, end.line), end.index)]

get_selection_text(t) ==
    LET r == fold_selection_slices(t)
    IN  [panic |-> r.panic, val |-> IF r.val = <<>> THEN None ELSE Some(r.val)]

\* The length of the selected text in UTF-16 code units
selection_utf16_len(t) ==
    LET r == fold_selection_slices(t)
    IN  [panic |-> r.panic, val |-> Utf16StrLen(r.val)]

\* len_of_first_n_chars counting bytes instead of characters
len_of_first_n_chars_as_bytes(text, n) == Min(n, StrLen(text))

\* The length in bytes of the first n characters in a UTF-8 string
len_of_first_n_chars(text, n) == StrLen(SubSeq(text, 1, Min(n, Len(text))))

RECURSIVE CodeUnitsLoop(_, _, _)
\* the loop of len_of_first_n_code_units, `units` code units (its utf16_len) counted
CodeUnitsLoop(text, n, units) ==
    IF text = <<>> THEN 0
    ELSE LET u == units + Utf16Len(Head(text))
         IN  IF u > n THEN 0
             ELSE Utf8Len(Head(text)) + CodeUnitsLoop(Tail(text), n, u)

\* len_of_first_n_code_units counting characters instead of UTF-16 code units
len_of_first_n_code_units_as_chars(text, n) ==
    StrLen(SubSeq(text, 1, Min(n, Len(text))))

\* The length in bytes of the first n code units of a string when encoded in UTF-16
len_of_first_n_code_units(text, n) == CodeUnitsLoop(text, n, 0)

\* insert_lines split on '\n' whether or not the input is multiline
InsertLinesAlwaysSplit(t, chars_to_insert) == SplitOn(chars_to_insert, {"NL"})

\* insert_lines of replace_selection, before prefix and suffix are attached
InsertLines(t, chars_to_insert) ==
    IF t.multiline THEN SplitOn(chars_to_insert, {"NL"}) ELSE <<chars_to_insert>>

\* replace_selection from `let last_char_index` on, allowed_to_insert_count known
ReplaceWith(t, insert, start, end, allowed_to_insert_count) ==
    LET last_char_index == len_of_first_n_code_units(insert, allowed_to_insert_count)
        chars_to_insert == SliceTo(insert, last_char_index)
        t1 == clear_selection(t)
    IN  IF ~LineOk(t1, start.line) THEN Panic(t1)
        ELSE IF ~IsCharBoundary(Line(t1, start.line), start.index) THEN Panic(t1)
        ELSE IF ~LineOk(t1, end.line) THEN Panic(t1)
        ELSE IF ~IsCharBoundary(Line(t1, end.line), end.index) THEN Panic(t1)
        ELSE
        LET prefix == SliceTo(Line(t1, start.line), start.index)
            suffix == SliceFrom(Line(t1, end.line), end.index)
            lines_prefix == SubSeq(t1.lines, 1, start.line)
            lines_suffix == SubSeq(t1.lines, end.line + 2, Len(t1.lines))
            il0 == InsertLines(t1, chars_to_insert)
            il1 == [il0 EXCEPT ![1] = prefix \o il0[1]]
            last_insert_lines_index == Len(il1) - 1
            point == TextPoint(start.line + last_insert_lines_index,
                               StrLen(il1[last_insert_lines_index + 1]))
            il2 == [il1 EXCEPT ![last_insert_lines_index + 1] = @ \o suffix]
        IN  assert_ok_selection(
                [t1 EXCEPT !.edit_point = point,
                           !.lines = lines_prefix \o il2 \o lines_suffix])

\* replace_selection aborting only when the remaining length exceeds max_length
replace_selection_abort_above(t, insert) ==
    IF t.panic \/ ~has_selection(t) THEN t
    ELSE
    LET start == selection_start(t)
        end   == selection_end(t)
    IN  IF IsSome(t.max_length)
        THEN LET sel == selection_utf16_len(t)
                 len_after_selection_replaced == utf16_len(t) - sel.val
             IN  IF sel.panic THEN Panic(t)
                 ELSE IF len_after_selection_replaced > Unwrap(t.max_length) THEN t
                 ELSE ReplaceWith(t, insert, start, end,
                          Unwrap(t.max_length) - len_after_selection_replaced)
        ELSE ReplaceWith(t, insert, start, end, usize_MAX)

replace_selection(t, insert) ==
    IF t.panic \/ ~has_selection(t) THEN t
    ELSE
    LET start == selection_start(t)
        end   == selection_end(t)
    IN  IF IsSome(t.max_length)
        THEN LET sel == selection_utf16_len(t)
                 len_after_selection_replaced == utf16_len(t) - sel.val
             IN  IF sel.panic THEN Panic(t)
                 ELSE IF len_after_selection_replaced >= Unwrap(t.max_length) THEN t
                 ELSE ReplaceWith(t, insert, start, end,
                          Unwrap(t.max_length) - len_after_selection_replaced)
        ELSE ReplaceWith(t, insert, start, end, usize_MAX)

\* insert_string that does not establish the zero-width selection first
insert_string_without_origin(t, s) == replace_selection(t, s)

\* Insert a string at the current editing point
insert_string(t, s) ==
    replace_selection(
        IF IsSome(t.selection_origin) THEN t
        ELSE [t EXCEPT !.selection_origin = Some(t.edit_point)], s)

\* Insert a character at the current editing point
insert_char(t, ch) == insert_string(t, <<ch>>)

(***************************************************************************)
(* Unicode segmentation (the unicode_segmentation crate), on the code      *)
(* points of Char: extended grapheme clusters and UAX #29 word bounds.     *)
(***************************************************************************)
\* no grapheme cluster boundary between c1 and c2: GB3 (CR x LF), GB9 (x Extend);
\* GB4/GB5 break after and before CR and LF
GraphemeJoin(c1, c2) ==
    \/ c1 = "CR" /\ c2 = "NL"
    \/ c2 = "M" /\ c1 \notin {"CR", "NL"}

RECURSIVE FirstGraphemeChars(_, _)
\* the number of code points of s.graphemes(true).next(), at least k
FirstGraphemeChars(s, k) ==
    IF k < Len(s) /\ GraphemeJoin(s[k], s[k + 1])
    THEN FirstGraphemeChars(s, k + 1) ELSE k

RECURSIVE LastGraphemeStart(_, _)
\* the first code point of s.graphemes(true).next_back(), at most k
LastGraphemeStart(s, k) ==
    IF k > 1 /\ GraphemeJoin(s[k - 1], s[k])
    THEN LastGraphemeStart(s, k - 1) ELSE k

\* s.graphemes(true).next().map(|c| c.len()), None as 0
FirstGraphemeLen(s) ==
    IF s = <<>> THEN 0 ELSE StrLen(SubSeq(s, 1, FirstGraphemeChars(s, 1)))

\* s.graphemes(true).next_back().map(|c| c.len()), None as 0
LastGraphemeLen(s) ==
    IF s = <<>> THEN 0
    ELSE StrLen(SubSeq(s, LastGraphemeStart(s, Len(s)), Len(s)))

RECURSIVE WordBase(_, _)
\* WB4: the code point that s[k] counts as, skipping the Extend marks attached to it
WordBase(s, k) ==
    IF s[k] # "M" THEN s[k]
    ELSE IF k = 1 \/ s[k - 1] \in {"CR", "NL"} THEN "M"
    ELSE WordBase(s, k - 1)

\* a word boundary lies between s[k] and s[k+1]: WB3, WB3a, WB3b, WB3d, WB4, WB5, WB999
WordBreak(s, k) ==
    LET c1 == s[k]
        c2 == s[k + 1]
    IN  IF c1 = "CR" /\ c2 = "NL" THEN FALSE
        ELSE IF c1 \in {"CR", "NL"} \/ c2 \in {"CR", "NL"} THEN TRUE
        ELSE IF c1 = "SP" /\ c2 = "SP" THEN FALSE
        ELSE IF c2 = "M" THEN FALSE
        ELSE IF WordBase(s, k) \in {"a", "E"} /\ c2 \in {"a", "E"} THEN FALSE
        ELSE TRUE

RECURSIVE FirstWordChars(_, _)
\* the number of code points of s.split_word_bounds().next(), at least k
FirstWordChars(s, k) ==
    IF k < Len(s) /\ ~WordBreak(s, k) THEN FirstWordChars(s, k + 1) ELSE k

RECURSIVE LastWordStart(_, _)
\* the first code point of s.split_word_bounds().rev().next(), at most k
LastWordStart(s, k) ==
    IF k > 1 /\ ~WordBreak(s, k - 1) THEN LastWordStart(s, k - 1) ELSE k

\* the test of the word loops taking every unit as alphanumeric
HasAlphanumericAlways(x) == TRUE

HasAlphanumeric(x) == \E k \in 1..Len(x) : IsAlphanumeric(x[k])

RECURSIVE WordScanForward(_)
\* the loop of adjust_horizontal_by_word, Forward: the bytes of the units consumed
WordScanForward(input) ==
    IF input = <<>> THEN 0
    ELSE LET n == FirstWordChars(input, 1)
             x == SubSeq(input, 1, n)
         IN  IF HasAlphanumeric(x) THEN StrLen(x)
             ELSE StrLen(x) + WordScanForward(SubSeq(input, n + 1, Len(input)))

RECURSIVE WordScanBackward(_)
\* the loop of adjust_horizontal_by_word, Backward: the bytes of the units consumed
WordScanBackward(input) ==
    IF input = <<>> THEN 0
    ELSE LET k == LastWordStart(input, Len(input))
             x == SubSeq(input, k, Len(input))
         IN  IF HasAlphanumeric(x) THEN StrLen(x)
             ELSE StrLen(x) + WordScanBackward(SubSeq(input, 1, k - 1))

(***************************************************************************)
(* Navigation.                                                             *)
(***************************************************************************)
\* a - b on usize in a build without overflow checks
WrappingSub(a, b) == (a - b) % (2^UsizeBits)

adjust_vertical(t, adjust, select) ==
    IF t.panic \/ ~t.multiline THEN t
    ELSE
    LET t1 == IF select = "Selected"
              THEN IF IsSome(t.selection_origin) THEN t
                   ELSE [t EXCEPT !.selection_origin = Some(t.edit_point)]
              ELSE clear_selection(t)
        target_line == t1.edit_point.line + adjust
    IN  IF ~(t1.edit_point.line < Len(t1.lines)) THEN Panic(t1)
        ELSE IF target_line < 0
        THEN [t1 EXCEPT !.edit_point = TextPoint(0, 0)]
        ELSE IF target_line >= Len(t1.lines)
        THEN [t1 EXCEPT !.edit_point =
                 TextPoint(Len(t1.lines) - 1, StrLen(t1.lines[Len(t1.lines)]))]
        ELSE IF ~IsCharBoundary(Line(t1, t1.edit_point.line), t1.edit_point.index)
        THEN Panic(t1)
        ELSE LET col == Len(SliceTo(Line(t1, t1.edit_point.line), t1.edit_point.index))
             IN  assert_ok_selection(
                     [t1 EXCEPT !.edit_point =
                         TextPoint(target_line,
                                   len_of_first_n_chars(Line(t1, target_line), col))])

\* adjust_selection_for_horizontal_change that collapses the selection but never
\* cancels the caret move
adjust_selection_for_horizontal_change_never_cancels(t, adjust, select) ==
    IF select = "Selected"
    THEN [t |-> [t EXCEPT !.selection_origin =
                    IF IsSome(@) THEN @ ELSE Some(t.edit_point),
                          !.selection_direction = adjust],
          cancel |-> FALSE]
    ELSE IF has_selection(t)
         THEN [t |-> clear_selection(
                        [t EXCEPT !.edit_point =
                            IF adjust = "Backward" THEN selection_start(t)
                            ELSE selection_end(t)]),
               cancel |-> FALSE]
         ELSE [t |-> t, cancel |-> FALSE]

\* Return whether to cancel the caret move: [t |-> the new state, cancel |-> ]
adjust_selection_for_horizontal_change(t, adjust, select) ==
    IF select = "Selected"
    THEN [t |-> [t EXCEPT !.selection_origin =
                    IF IsSome(@) THEN @ ELSE Some(t.edit_point),
                          !.selection_direction = adjust],
          cancel |-> FALSE]
    ELSE IF has_selection(t)
         THEN [t |-> clear_selection(
                        [t EXCEPT !.edit_point =
                            IF adjust = "Backward" THEN selection_start(t)
                            ELSE selection_end(t)]),
               cancel |-> TRUE]
         ELSE [t |-> t, cancel |-> FALSE]

RECURSIVE adjust_horizontal(_, _, _)
RECURSIVE perform_horizontal_adjustment(_, _, _)

perform_horizontal_adjustment(t, adjust, select) ==
    IF t.panic THEN t
    ELSE IF adjust < 0
    THEN LET remaining == t.edit_point.index
         IN  IF Abs(adjust) > remaining /\ t.edit_point.line > 0
             THEN LET t1 == adjust_vertical(t, -1, select)
                  IN  IF t1.panic THEN t1
                      ELSE IF ~LineOk(t1, t1.edit_point.line) THEN Panic(t1)
                      ELSE assert_ok_selection(
                               adjust_horizontal(
                                   [t1 EXCEPT !.edit_point.index = current_line_length(t1)],
                                   adjust + remaining + 1, select))
             ELSE assert_ok_selection(
                      [t EXCEPT !.edit_point.index = Max(0, t.edit_point.index + adjust)])
    ELSE IF ~LineOk(t, t.edit_point.line) THEN Panic(t)
    ELSE IF t.debug_assertions /\ t.edit_point.index > current_line_length(t)
    THEN Panic(t)   \* attempt to subtract with overflow
    ELSE LET remaining == WrappingSub(current_line_length(t), t.edit_point.index)
         IN  IF adjust > remaining /\ Len(t.lines) > t.edit_point.line + 1
             THEN LET t1 == adjust_vertical(t, 1, select)
                  IN  IF t1.panic THEN t1
                      ELSE assert_ok_selection(
                               adjust_horizontal(
                                   [t1 EXCEPT !.edit_point.index = 0],
                                   adjust - remaining - 1, select))
             ELSE assert_ok_selection(
                      [t EXCEPT !.edit_point.index =
                          Min(current_line_length(t), t.edit_point.index + adjust)])

adjust_horizontal(t, adjust, select) ==
    IF t.panic THEN t
    ELSE LET direction == IF adjust >= 0 THEN "Forward" ELSE "Backward"
             r == adjust_selection_for_horizontal_change(t, direction, select)
         IN  IF r.cancel THEN r.t
             ELSE perform_horizontal_adjustment(r.t, adjust, select)

\* adjust_horizontal_by_one moving by one byte instead of one grapheme cluster
adjust_horizontal_by_one_bytewise(t, direction, select) ==
    adjust_horizontal(t, IF direction = "Forward" THEN 1 ELSE -1, select)

adjust_horizontal_by_one(t, direction, select) ==
    IF t.panic THEN t
    ELSE
    LET r  == adjust_selection_for_horizontal_change(t, direction, select)
        t1 == r.t
    IN  IF r.cancel THEN t1
        ELSE IF ~LineOk(t1, t1.edit_point.line) THEN Panic(t1)
        ELSE IF ~IsCharBoundary(Line(t1, t1.edit_point.line), t1.edit_point.index)
        THEN Panic(t1)
        ELSE
        LET current_line == Line(t1, t1.edit_point.line)
            g == IF direction = "Forward"
                 THEN FirstGraphemeLen(SliceFrom(current_line, t1.edit_point.index))
                 ELSE LastGraphemeLen(SliceTo(current_line, t1.edit_point.index))
            adjust == IF direction = "Forward"
                      THEN (IF g = 0 THEN 1 ELSE g)
                      ELSE (IF g = 0 THEN -1 ELSE -g)
        IN  perform_horizontal_adjustment(t1, adjust, select)

\* Remove a character at the current editing point
delete_char(t, dir) ==
    replace_selection(
        IF ~IsSome(t.selection_origin) \/ t.selection_origin = Some(t.edit_point)
        THEN adjust_horizontal_by_one(t, dir, "Selected")
        ELSE t, <<>>)

\* handle_return that inserts the newline whether or not the input is multiline
handle_return_always_inserts(t) ==
    [t |-> insert_char(t, "NL"), reaction |-> "DispatchInput"]

\* Deal with a newline input: [t |-> the new state, reaction |-> ]
handle_return(t) ==
    IF ~t.multiline THEN [t |-> t, reaction |-> "TriggerDefaultAction"]
    ELSE [t |-> insert_char(t, "NL"), reaction |-> "DispatchInput"]

\* Select all text in the input control
select_all(t) ==
    LET last_line == Len(t.lines) - 1
    IN  assert_ok_selection(
            [t EXCEPT !.selection_origin = Some(TextPoint(0, 0)),
                      !.edit_point = TextPoint(last_line, StrLen(Line(t, last_line)))])

\* the shift_increment of adjust_horizontal_by_word: [panic |-> , val |-> ]
WordShift(t, direction) ==
    LET current_line == t.edit_point.line
        boom == [panic |-> TRUE, val |-> 0]
    IN  IF direction = "Backward"
        THEN LET remaining == t.edit_point.index
             IN  IF remaining = 0 /\ current_line > 0
                 THEN IF ~LineOk(t, current_line - 1) THEN boom
                      ELSE [panic |-> FALSE,
                            val |-> -WordScanBackward(Line(t, current_line - 1)) - 1]
                 ELSE IF ~LineOk(t, current_line) THEN boom
                      ELSE IF ~IsCharBoundary(Line(t, current_line), remaining) THEN boom
                      ELSE [panic |-> FALSE,
                            val |-> -WordScanBackward(
                                        SliceTo(Line(t, current_line), remaining))]
        ELSE IF ~LineOk(t, current_line) THEN boom
        ELSE IF t.debug_assertions /\ t.edit_point.index > current_line_length(t)
        THEN boom   \* attempt to subtract with overflow
        ELSE LET remaining == WrappingSub(current_line_length(t), t.edit_point.index)
             IN  IF remaining = 0 /\ Len(t.lines) > t.edit_point.line + 1
                 THEN [panic |-> FALSE,
                       val |-> WordScanForward(Line(t, current_line + 1)) + 1]
                 ELSE IF ~IsCharBoundary(Line(t, current_line), t.edit_point.index)
                      THEN boom
                      ELSE [panic |-> FALSE,
                            val |-> WordScanForward(
                                        SliceFrom(Line(t, current_line),
                                                  t.edit_point.index))]

adjust_horizontal_by_word(t, direction, select) ==
    IF t.panic THEN t
    ELSE
    LET r == adjust_selection_for_horizontal_change(t, direction, select)
    IN  IF r.cancel THEN r.t
        ELSE LET shift_increment == WordShift(r.t, direction)
             IN  IF shift_increment.panic THEN Panic(r.t)
                 ELSE adjust_horizontal(r.t, shift_increment.val, select)

adjust_horizontal_to_line_end(t, direction, select) ==
    IF t.panic THEN t
    ELSE
    LET r  == adjust_selection_for_horizontal_change(t, direction, select)
        t1 == r.t
    IN  IF r.cancel THEN t1
        ELSE IF ~LineOk(t1, t1.edit_point.line) THEN Panic(t1)
        ELSE IF ~IsCharBoundary(Line(t1, t1.edit_point.line), t1.edit_point.index)
        THEN Panic(t1)
        ELSE
        LET current_line == Line(t1, t1.edit_point.line)
            shift == IF direction = "Backward"
                     THEN -StrLen(SliceTo(current_line, t1.edit_point.index))
                     ELSE StrLen(SliceFrom(current_line, t1.edit_point.index))
        IN  perform_horizontal_adjustment(t1, shift, select)

\* adjust_horizontal_to_limit that returns at once when update_text_cursor is false
adjust_horizontal_to_limit_or_nothing(t, direction, select, update_text_cursor) ==
    IF t.panic \/ ~update_text_cursor THEN t
    ELSE
    LET r  == adjust_selection_for_horizontal_change(t, direction, select)
        t1 == r.t
    IN  IF r.cancel THEN t1
        ELSE IF direction = "Backward"
        THEN [t1 EXCEPT !.edit_point = TextPoint(0, 0)]
        ELSE [t1 EXCEPT !.edit_point =
                 TextPoint(Len(t1.lines) - 1, StrLen(t1.lines[Len(t1.lines)]))]

adjust_horizontal_to_limit(t, direction, select, update_text_cursor) ==
    IF t.panic THEN t
    ELSE
    LET r  == adjust_selection_for_horizontal_change(t, direction, select)
        t1 == r.t
    IN  IF r.cancel \/ ~update_text_cursor THEN t1
        ELSE IF direction = "Backward"
        THEN [t1 EXCEPT !.edit_point = TextPoint(0, 0)]
        ELSE [t1 EXCEPT !.edit_point =
                 TextPoint(Len(t1.lines) - 1, StrLen(t1.lines[Len(t1.lines)]))]

\* Remove the current selection and set the edit point to the end of the content
clear_selection_to_limit(t, direction, update_text_cursor) ==
    adjust_horizontal_to_limit(clear_selection(t), direction, "NotSelected",
                               update_text_cursor)

\* set_selection_range that takes start and end as they come
set_selection_range_unclamped(t, start, end, direction) ==
    LET t1 == [t EXCEPT !.selection_direction = direction]
    IN  assert_ok_selection(
            IF direction = "Backward"
            THEN [t1 EXCEPT !.selection_origin = Some(offset_to_text_point(t, end)),
                            !.edit_point = offset_to_text_point(t, start)]
            ELSE [t1 EXCEPT !.selection_origin = Some(offset_to_text_point(t, start)),
                            !.edit_point = offset_to_text_point(t, end)])

set_selection_range(t, start, end, direction) ==
    LET text_end == StrLen(get_content(t))
        end1   == IF end > text_end THEN text_end ELSE end
        start1 == IF start > end1 THEN end1 ELSE start
        t1 == [t EXCEPT !.selection_direction = direction]
    IN  assert_ok_selection(
            IF direction = "Backward"
            THEN [t1 EXCEPT !.selection_origin = Some(offset_to_text_point(t, end1)),
                            !.edit_point = offset_to_text_point(t, start1)]
            ELSE [t1 EXCEPT !.selection_origin = Some(offset_to_text_point(t, start1)),
                            !.edit_point = offset_to_text_point(t, end1)])

RECURSIVE GraphemesTake(_, _)
\* the bytes of s.graphemes(true).take(n)
GraphemesTake(s, n) ==
    IF n = 0 \/ s = <<>> THEN 0
    ELSE LET k == FirstGraphemeChars(s, 1)
         IN  StrLen(SubSeq(s, 1, k)) + GraphemesTake(SubSeq(s, k + 1, Len(s)), n - 1)

set_edit_point_index(t, index) ==
    IF ~LineOk(t, t.edit_point.line) THEN Panic(t)
    ELSE [t EXCEPT !.edit_point.index = GraphemesTake(Line(t, t.edit_point.line), index)]

(***************************************************************************)
(* Key dispatch.  mods is the set of modifiers held, among SHIFT, CONTROL, *)
(* ALT and SUPER; mods.contains(X | Y) holds when both X and Y are held.   *)
(***************************************************************************)
Contains(mods, flags) == flags \subseteq mods

\* the standard control modifier: cmd on Mac OS, ctrl on other platforms
is_control_key(t, mods) ==
    IF t.macos
    THEN Contains(mods, {"SUPER"}) /\ ~Contains(mods, {"CONTROL", "ALT"})
    ELSE Contains(mods, {"CONTROL"}) /\ ~Contains(mods, {"SUPER", "ALT"})

\* the lines of a vertical move by PageUp / PageDown
PageLines == 28

\* the arm of Key::C writing the clipboard whatever the selected text is
CopyArm_always_writing(t) ==
    LET text == get_selection_text(t)
    IN  IF text.panic THEN Panic(t)
        ELSE [t EXCEPT !.clipboard = IF IsSome(text.val) THEN Unwrap(text.val) ELSE <<>>]

\* the arm of (_, Key::C) if is_control_key(mods)
CopyArm(t) ==
    LET text == get_selection_text(t)
    IN  IF text.panic THEN Panic(t)
        ELSE IF IsSome(text.val) THEN [t EXCEPT !.clipboard = Unwrap(text.val)]
        ELSE t

\* the arm of (None, Key::End)
EndArm(t) ==
    IF t.macos THEN t
    ELSE IF ~LineOk(t, t.edit_point.line) THEN Panic(t)
    ELSE assert_ok_selection([t EXCEPT !.edit_point.index = current_line_length(t)])

\* [t |-> the new state, reaction |-> the KeyReaction returned]
handle_keydown_aux(t, printable, key, mods) ==
    LET maybe_select == IF Contains(mods, {"SHIFT"}) THEN "Selected" ELSE "NotSelected"
        Redraw(u) == [t |-> u, reaction |-> "RedrawSelection"]
        Input(u)  == [t |-> u, reaction |-> "DispatchInput"]
        np == printable = None
    IN  IF key = "B" /\ Contains(mods, {"CONTROL", "ALT"})
        THEN Redraw(adjust_horizontal_by_word(t, "Backward", maybe_select))
        ELSE IF key = "F" /\ Contains(mods, {"CONTROL", "ALT"})
        THEN Redraw(adjust_horizontal_by_word(t, "Forward", maybe_select))
        ELSE IF key = "A" /\ Contains(mods, {"CONTROL", "ALT"})
        THEN Redraw(adjust_horizontal_to_line_end(t, "Backward", maybe_select))
        ELSE IF key = "E" /\ Contains(mods, {"CONTROL", "ALT"})
        THEN Redraw(adjust_horizontal_to_line_end(t, "Forward", maybe_select))
        ELSE IF t.macos /\ np /\ key = "A" /\ mods = {"CONTROL"}
        THEN Redraw(adjust_horizontal_to_line_end(t, "Backward", maybe_select))
        ELSE IF t.macos /\ np /\ key = "E" /\ mods = {"CONTROL"}
        THEN Redraw(adjust_horizontal_to_line_end(t, "Forward", maybe_select))
        ELSE IF key = "A" /\ is_control_key(t, mods)
        THEN Redraw(select_all(t))
        ELSE IF key = "C" /\ is_control_key(t, mods)
        THEN Input(CopyArm(t))
        ELSE IF key = "V" /\ is_control_key(t, mods)
        THEN Input(insert_string(t, t.clipboard))
        ELSE IF ~np
        THEN Input(insert_char(t, Unwrap(printable)))
        ELSE IF key = "Delete"
        THEN Input(delete_char(t, "Forward"))
        ELSE IF key = "Backspace"
        THEN Input(delete_char(t, "Backward"))
        ELSE IF t.macos /\ key = "Left" /\ Contains(mods, {"SUPER"})
        THEN Redraw(adjust_horizontal_to_line_end(t, "Backward", maybe_select))
        ELSE IF t.macos /\ key = "Right" /\ Contains(mods, {"SUPER"})
        THEN Redraw(adjust_horizontal_to_line_end(t, "Forward", maybe_select))
        ELSE IF t.macos /\ key = "Up" /\ Contains(mods, {"SUPER"})
        THEN Redraw(adjust_horizontal_to_limit(t, "Backward", maybe_select, TRUE))
        ELSE IF t.macos /\ key = "Down" /\ Contains(mods, {"SUPER"})
        THEN Redraw(adjust_horizontal_to_limit(t, "Forward", maybe_select, TRUE))
        ELSE IF key = "Left" /\ Contains(mods, {"ALT"})
        THEN Redraw(adjust_horizontal_by_word(t, "Backward", maybe_select))
        ELSE IF key = "Right" /\ Contains(mods, {"ALT"})
        THEN Redraw(adjust_horizontal_by_word(t, "Forward", maybe_select))
        ELSE IF key = "Left"
        THEN Redraw(adjust_horizontal_by_one(t, "Backward", maybe_select))
        ELSE IF key = "Right"
        THEN Redraw(adjust_horizontal_by_one(t, "Forward", maybe_select))
        ELSE IF key = "Up"
        THEN Redraw(adjust_vertical(t, -1, maybe_select))
        ELSE IF key = "Down"
        THEN Redraw(adjust_vertical(t, 1, maybe_select))
        ELSE IF key \in {"Enter", "KpEnter"}
        THEN handle_return(t)
        ELSE IF key = "Home"
        THEN Redraw(IF t.macos THEN t ELSE [t EXCEPT !.edit_point.index = 0])
        ELSE IF key = "End"
        THEN Redraw(EndArm(t))
        ELSE IF key = "PageUp"
        THEN Redraw(adjust_vertical(t, -PageLines, maybe_select))
        ELSE IF key = "PageDown"
        THEN Redraw(adjust_vertical(t, PageLines, maybe_select))
        ELSE [t |-> t, reaction |-> "Nothing"]

(***************************************************************************)
(* State after construction.                                               *)
(***************************************************************************)
InitialContents == {<<>>, <<"a">>, <<"E", "NL", "a">>, <<"a", "CR", "NL">>}

ClipboardContents == {<<"a", "NL", "E">>}

MaxLengths == {None, Some(MaxMaxLength)}

\* hist records the last call where a claim needs it; NoHist where none does
NoHist == [op |-> "none"]

InitWith(contents, maxlens, clips, dbgs, macs) ==
    \E lns \in {"Single", "Multiple"}, initial \in contents, clip \in clips,
       maxlen \in maxlens, dir \in SelectionDirections, dbg \in dbgs, mac \in macs :
        LET t == new(lns, initial, clip, maxlen, dir, dbg, mac)
        IN  /\ lines = t.lines
            /\ edit_point = t.edit_point
            /\ selection_origin = t.selection_origin
            /\ selection_direction = t.selection_direction
            /\ multiline = t.multiline
            /\ max_length = t.max_length
            /\ clipboard = t.clipboard
            /\ debug_assertions = t.debug_assertions
            /\ macos = t.macos
            /\ panicked = t.panic
            /\ hist = NoHist

Init == InitWith(InitialContents, MaxLengths, ClipboardContents, BOOLEAN, {FALSE})

\* The state after a call that returned t (or panicked), h recording the call;
\* bound caps the content an action may build
DoWithin(t, h, bound) ==
    /\ ~panicked
    /\ len(t) <= bound
    /\ hist' = h
    /\ panicked' = t.panic
    /\ IF t.panic
       THEN UNCHANGED <<lines, edit_point, selection_origin, selection_direction,
                        clipboard>>
       ELSE /\ lines' = t.lines
            /\ edit_point' = t.edit_point
            /\ selection_origin' = t.selection_origin
            /\ selection_direction' = t.selection_direction
            /\ clipboard' = t.clipboard
    /\ UNCHANGED <<multiline, max_length, debug_assertions, macos>>

Do(t, h) == DoWithin(t, h, MaxLen)

(***************************************************************************)
(* The public operations, each on inputs drawn from a small set.           *)
(***************************************************************************)
SetContentTexts == {<<>>, <<"E">>, <<"a", "NL">>, <<"CR", "NL", "a">>}

InsertTexts == {<<"a">>, <<"E">>, <<"NL">>, <<"CR">>, <<"a", "NL", "a">>}

Directions == {"Forward", "Backward"}

Selections == {"Selected", "NotSelected"}

SetContent ==
    \E content \in SetContentTexts, u \in BOOLEAN :
        Do(set_content(Self, content, u), NoHist)

InsertString ==
    \E s \in InsertTexts : Do(insert_string(Self, s), NoHist)

InsertChar ==
    \E ch \in {"a", "E"} : Do(insert_char(Self, ch), NoHist)

DeleteChar ==
    \E dir \in Directions : Do(delete_char(Self, dir), NoHist)

ReplaceSelection ==
    \E s \in InsertTexts : Do(replace_selection(Self, s), NoHist)

AdjustVertical ==
    \E adjust \in {-1, 1}, select \in Selections :
        Do(adjust_vertical(Self, adjust, select), NoHist)

AdjustHorizontal ==
    \E adjust \in (-MaxDelta)..MaxDelta, select \in Selections :
        Do(adjust_horizontal(Self, adjust, select), NoHist)

AdjustHorizontalByOne ==
    \E dir \in Directions, select \in Selections :
        Do(adjust_horizontal_by_one(Self, dir, select),
           NoHist)

AdjustHorizontalByWord ==
    \E dir \in Directions, select \in Selections :
        Do(adjust_horizontal_by_word(Self, dir, select),
           NoHist)

AdjustHorizontalToLineEnd ==
    \E dir \in Directions, select \in Selections :
        Do(adjust_horizontal_to_line_end(Self, dir, select),
           NoHist)

AdjustHorizontalToLimit ==
    \E dir \in Directions, select \in Selections, u \in BOOLEAN :
        Do(adjust_horizontal_to_limit(Self, dir, select, u),
           NoHist)

SelectAll == Do(select_all(Self), NoHist)

ClearSelection == Do(clear_selection(Self), NoHist)

SetSelectionRange ==
    \E start \in 0..MaxDelta, end \in 0..MaxDelta, dir \in SelectionDirections :
        Do(set_selection_range(Self, start, end, dir), NoHist)

\* the key events of the model: [printable, key, mods]
KeyEvent(printable, key, mods) == [printable |-> printable, key |-> key, mods |-> mods]

NavigationKeys == {"Left", "Right", "Up", "Down", "Home", "End", "PageUp", "PageDown"}

KeyEvents ==
    {KeyEvent(None, k, m) : k \in NavigationKeys, m \in {{}, {"SHIFT"}}}
    \cup {KeyEvent(None, k, m) : k \in {"Left", "Right"}, m \in {{"ALT"}, {"ALT", "SHIFT"}}}
    \cup {KeyEvent(None, k, {}) : k \in {"Delete", "Backspace", "Enter", "KpEnter", "Other"}}
    \cup {KeyEvent(Some("a"), k, {"CONTROL"}) : k \in {"A", "V"}}
    \cup {KeyEvent(Some("a"), k, {"CONTROL", "ALT"}) : k \in {"A", "B", "E", "F"}}
    \cup {KeyEvent(Some("a"), "A", {}), KeyEvent(Some("E"), "Other", {"SHIFT"})}

HandleKeydown ==
    \E e \in KeyEvents :
        LET r == handle_keydown_aux(Self, e.printable, e.key, e.mods)
        IN  Do(r.t, NoHist)

Next ==
    \/ SetContent
    \/ InsertString
    \/ InsertChar
    \/ DeleteChar
    \/ ReplaceSelection
    \/ AdjustVertical
    \/ AdjustHorizontal
    \/ AdjustHorizontalByOne
    \/ AdjustHorizontalByWord
    \/ AdjustHorizontalToLineEnd
    \/ AdjustHorizontalToLimit
    \/ SelectAll
    \/ ClearSelection
    \/ SetSelectionRange
    \/ HandleKeydown

Spec == Init /\ [][Next]_vars

(***************************************************************************)
(* The public operations with set_content only ever called with            *)
(* update_text_cursor = true after construction.                           *)
(***************************************************************************)
SetContentUpdateCursor ==
    \E content \in SetContentTexts : Do(set_content(Self, content, TRUE), NoHist)

NextUpdateCursor ==
    \/ SetContentUpdateCursor
    \/ InsertString
    \/ InsertChar
    \/ DeleteChar
    \/ ReplaceSelection
    \/ AdjustVertical
    \/ AdjustHorizontal
    \/ AdjustHorizontalByOne
    \/ AdjustHorizontalByWord
    \/ AdjustHorizontalToLineEnd
    \/ AdjustHorizontalToLimit
    \/ SelectAll
    \/ ClearSelection
    \/ SetSelectionRange
    \/ HandleKeydown

SpecUpdateCursor == Init /\ [][NextUpdateCursor]_vars

(***************************************************************************)
(* Editing only: set_content, insert_string, insert_char, paste (Ctrl+V),  *)
(* Enter and delete_char.                                                  *)
(***************************************************************************)
PasteKey ==
    LET r == handle_keydown_aux(Self, Some("v"), "V",
                                IF macos THEN {"SUPER"} ELSE {"CONTROL"})
    IN  Do(r.t, NoHist)

EnterKey ==
    \E key \in {"Enter", "KpEnter"} :
        LET r == handle_keydown_aux(Self, None, key, {})
        IN  Do(r.t, NoHist)

NextEdit ==
    \/ SetContent
    \/ InsertString
    \/ InsertChar
    \/ DeleteChar
    \/ PasteKey
    \/ EnterKey

SpecEdit == Init /\ [][NextEdit]_vars

(***************************************************************************)
(* Editing under a max_length, with a code point that takes two UTF-16     *)
(* code units: insert_string, insert_char, paste, Enter and delete_char,   *)
(* and the selections select_all and adjust_horizontal_by_one build.       *)
(* hist records the call, its text and the UTF-16 length before it.        *)
(***************************************************************************)
InitialContents16 == {<<>>, <<"G">>, <<"a", "G", "a">>}

InsertTexts16 == {<<"a">>, <<"G">>, <<"a", "G">>, <<"G", "G">>, <<"a", "NL", "a">>}

MaxLengths16 == {Some(n) : n \in 1..(MaxMaxLength + 1)}

InitUtf16 ==
    InitWith(InitialContents16, MaxLengths16, {<<"a", "G">>}, BOOLEAN, {FALSE})

Called(op, text) ==
    [op |-> op, text |-> text, pre_utf16_len |-> utf16_len(Self)]

InsertString16 ==
    \E s \in InsertTexts16 :
        DoWithin(insert_string(Self, s), Called("insert_string", s), MaxLen16)

InsertChar16 ==
    \E ch \in {"a", "G"} :
        DoWithin(insert_char(Self, ch), Called("insert_char", <<ch>>), MaxLen16)

DeleteChar16 ==
    \E dir \in Directions :
        DoWithin(delete_char(Self, dir), Called("delete_char", <<>>), MaxLen16)

PasteKey16 ==
    LET r == handle_keydown_aux(Self, Some("v"), "V",
                                IF macos THEN {"SUPER"} ELSE {"CONTROL"})
    IN  DoWithin(r.t, Called("paste", clipboard), MaxLen16)

EnterKey16 ==
    \E key \in {"Enter", "KpEnter"} :
        LET r == handle_keydown_aux(Self, None, key, {})
        IN  DoWithin(r.t, Called("enter", <<"NL">>), MaxLen16)

SelectAll16 == DoWithin(select_all(Self), Called("select_all", <<>>), MaxLen16)

AdjustHorizontalByOne16 ==
    \E dir \in Directions, select \in Selections :
        DoWithin(adjust_horizontal_by_one(Self, dir, select),
                 Called("adjust_horizontal_by_one", <<>>), MaxLen16)

NextUtf16 ==
    \/ InsertString16
    \/ InsertChar16
    \/ DeleteChar16
    \/ PasteKey16
    \/ EnterKey16
    \/ SelectAll16
    \/ AdjustHorizontalByOne16

SpecUtf16 == InitUtf16 /\ [][NextUtf16]_vars

(***************************************************************************)
(* Navigation only, over buffers with multi-byte characters, a combining   *)
(* mark, empty lines and runs of spaces: the caret and selection           *)
(* operations and the navigation keys.  None of them changes the content.  *)
(***************************************************************************)
NavigationContents ==
    {<<"a", "E", "NL", "E", "SP", "a">>,
     <<"a", "NL", "NL", "E", "M">>,
     <<"SP", "SP", "NL", "a", "SP">>}

InitNavigate == InitWith(NavigationContents, {None}, {<<>>}, BOOLEAN, {FALSE})

\* the state after a call that returned t, which holds the content it was given
Moved(t) == DoWithin(t, NoHist, len(Self))

AdjustVerticalNav ==
    \E adjust \in {-1, 1}, select \in Selections :
        Moved(adjust_vertical(Self, adjust, select))

AdjustHorizontalNav ==
    \E adjust \in (-MaxDelta)..MaxDelta, select \in Selections :
        Moved(adjust_horizontal(Self, adjust, select))

AdjustHorizontalByOneNav ==
    \E dir \in Directions, select \in Selections :
        Moved(adjust_horizontal_by_one(Self, dir, select))

AdjustHorizontalByWordNav ==
    \E dir \in Directions, select \in Selections :
        Moved(adjust_horizontal_by_word(Self, dir, select))

AdjustHorizontalToLineEndNav ==
    \E dir \in Directions, select \in Selections :
        Moved(adjust_horizontal_to_line_end(Self, dir, select))

AdjustHorizontalToLimitNav ==
    \E dir \in Directions, select \in Selections :
        Moved(adjust_horizontal_to_limit(Self, dir, select, TRUE))

SelectAllNav == Moved(select_all(Self))

SetSelectionRangeNav ==
    \E start \in 0..(len(Self) + 1), end \in 0..(len(Self) + 1),
       dir \in SelectionDirections :
        Moved(set_selection_range(Self, start, end, dir))

ClearSelectionNav == Moved(clear_selection(Self))

NavigationKeyEvents ==
    {KeyEvent(None, k, m) : k \in NavigationKeys, m \in {{}, {"SHIFT"}}}
    \cup {KeyEvent(None, k, m) : k \in {"Left", "Right"}, m \in {{"ALT"}, {"ALT", "SHIFT"}}}

NavigationKey ==
    \E e \in NavigationKeyEvents :
        Moved(handle_keydown_aux(Self, e.printable, e.key, e.mods).t)

NextNavigate ==
    \/ AdjustVerticalNav
    \/ AdjustHorizontalNav
    \/ AdjustHorizontalByOneNav
    \/ AdjustHorizontalByWordNav
    \/ AdjustHorizontalToLineEndNav
    \/ AdjustHorizontalToLimitNav
    \/ SelectAllNav
    \/ SetSelectionRangeNav
    \/ ClearSelectionNav
    \/ NavigationKey

SpecNavigate == InitNavigate /\ [][NextNavigate]_vars

(***************************************************************************)
(* A walk through the buffer: the caret is put at the document end (or     *)
(* start) with no selection, then adjust_horizontal_by_one(dir,            *)
(* NotSelected) is called again and again.  hist records the walk: its     *)
(* direction, the lines it started on, the calls made so far and the       *)
(* edit point's byte offset before the last call.                          *)
(***************************************************************************)
MaxSteps == 8

WalkContents ==
    NavigationContents \cup {<<>>, <<"a", "CR", "NL", "E", "M", "M">>}

InitWalk == InitWith(WalkContents, {None}, {<<>>}, BOOLEAN, {FALSE})

WalkStart(t, dir) ==
    [op |-> "walk", dir |-> dir, lines |-> t.lines, steps |-> 0,
     prev |-> text_point_to_offset(t, t.edit_point)]

GoToLimit ==
    /\ hist.op = "none"
    /\ \E dir \in Directions :
           LET t == clear_selection_to_limit(Self, dir, TRUE)
           IN  DoWithin(t, WalkStart(t, IF dir = "Forward" THEN "Backward" ELSE "Forward"),
                        len(Self))

StepByOne ==
    /\ hist.op = "walk"
    /\ hist.steps < MaxSteps
    /\ DoWithin(adjust_horizontal_by_one(Self, hist.dir, "NotSelected"),
                [hist EXCEPT !.steps = @ + 1,
                             !.prev = text_point_to_offset(Self, edit_point)],
                len(Self))

NextWalk ==
    \/ GoToLimit
    \/ StepByOne

SpecWalk == InitWalk /\ [][NextWalk]_vars

(***************************************************************************)
(* The keyboard only, on both platforms: every key event goes through      *)
(* handle_keydown_aux, under every set of modifiers for the letter keys.   *)
(***************************************************************************)
Modifiers == {"SHIFT", "CONTROL", "ALT", "SUPER"}

LetterKeys == {"A", "B", "C", "E", "F", "V"}

EnterKeys == {"Enter", "KpEnter"}

ShortcutModifiers ==
    {{"CONTROL"}, {"SUPER"}, {"CONTROL", "SHIFT"}, {"CONTROL", "ALT"},
     {"CONTROL", "ALT", "SHIFT"}, {"CONTROL", "SUPER"}}

ShortcutKeyEvents == {KeyEvent(None, k, m) : k \in LetterKeys, m \in ShortcutModifiers}

MovementKeyEvents ==
    {KeyEvent(None, k, m \cup sh) :
        k \in NavigationKeys, m \in {{}, {"ALT"}, {"SUPER"}}, sh \in {{}, {"SHIFT"}}}

EditingKeyEvents ==
    {KeyEvent(None, k, m) : k \in EnterKeys, m \in {{}, {"SHIFT"}}}
    \cup {KeyEvent(None, k, {}) : k \in {"Delete", "Backspace", "Other"}}
    \cup {KeyEvent(Some("a"), "A", {}), KeyEvent(Some("E"), "E", {"SHIFT"})}

MaxLenKeys == 2

KeysContents == {<<"E">>, <<"a", "NL">>}

InitKeys == InitWith(KeysContents, {None}, {<<"a", "NL">>}, BOOLEAN, BOOLEAN)

ShortcutKey ==
    \E e \in ShortcutKeyEvents :
        DoWithin(handle_keydown_aux(Self, e.printable, e.key, e.mods).t, NoHist,
                 MaxLenKeys)

MovementKey ==
    \E e \in MovementKeyEvents :
        DoWithin(handle_keydown_aux(Self, e.printable, e.key, e.mods).t, NoHist,
                 MaxLenKeys)

EditingKey ==
    \E e \in EditingKeyEvents :
        DoWithin(handle_keydown_aux(Self, e.printable, e.key, e.mods).t, NoHist,
                 MaxLenKeys)

NextKeys ==
    \/ ShortcutKey
    \/ MovementKey
    \/ EditingKey

SpecKeys == InitKeys /\ [][NextKeys]_vars

(***************************************************************************)
(* Claims.                                                                 *)
(***************************************************************************)
\* C1: in every reachable state selection_start() <= selection_end() in
\* (line, index) order
C1_SelectionOrdered ==
    ~panicked => PointLe(selection_start(Self), selection_end(Self))

\* C2: when set_content is only called with update_cursor = true, the edit point
\* and the selection origin (when present) lie in a line of the buffer and within
\* that line's byte length
C2_PointsInBounds ==
    /\ PointInBounds(Self, edit_point)
    /\ IsSome(selection_origin) => PointInBounds(Self, Unwrap(selection_origin))

\* a point of the buffer that is not in the middle of a code point
OnCharBoundary(t, p) ==
    PointInBounds(t, p) => IsCharBoundary(Line(t, p.line), p.index)

\* C3: no public operation leaves edit_point.index or selection_origin.index in
\* the middle of a multi-byte code point
C3_OnCharBoundaries ==
    /\ OnCharBoundary(Self, edit_point)
    /\ IsSome(selection_origin) => OnCharBoundary(Self, Unwrap(selection_origin))

\* C4: lines is never empty, and a single-line input has exactly one line
C4_LinesNonEmpty ==
    /\ Len(lines) >= 1
    /\ ~multiline => Len(lines) = 1

C6_OffsetRoundTrip ==
    \A x \in 0..len(Self) :
        LET p == offset_to_text_point(Self, x)
        IN  /\ text_point_to_offset(Self, p) = x
            /\ PointInBounds(Self, p)
            /\ x = len(Self) =>
                   p = TextPoint(Len(lines) - 1, StrLen(lines[Len(lines)]))

\* C7: applying set_content(get_content(), true) a second time changes neither
\* the content, nor the number of lines, nor the edit point
C7_SetContentIdempotent ==
    LET t1 == set_content(Self, get_content(Self), TRUE)
        t2 == set_content(t1, get_content(t1), TRUE)
    IN  ~panicked =>
            /\ ~t1.panic /\ ~t2.panic
            /\ get_content(t2) = get_content(t1)
            /\ Len(t2.lines) = Len(t1.lines)
            /\ t2.edit_point = t1.edit_point

\* a point at which the lines can be sliced: in a line of the buffer, within it,
\* and on a character boundary
SlicePoint(t, p) ==
    PointInBounds(t, p) /\ IsCharBoundary(Line(t, p.line), p.index)

\* the selection is a range of text: both ends slice points, start <= end
SelectionWellFormed(t) ==
    /\ SlicePoint(t, selection_start(t))
    /\ SlicePoint(t, selection_end(t))
    /\ PointLe(selection_start(t), selection_end(t))

\* the content before byte offset s followed by the content from byte offset e
ContentWithout(t, s, e) ==
    SliceTo(get_content(t), s) \o SliceFrom(get_content(t), e)

\* the UTF-16 length that remains after deleting the selection
RemainingUtf16(t) ==
    Utf16StrLen(ContentWithout(t, selection_start_offset(t), selection_end_offset(t)))

\* the longest prefix of text, cut between code points, of at most n UTF-16 units
LongestPrefix(text, n) ==
    LET ks == {k \in 0..Len(text) : Utf16StrLen(SubSeq(text, 1, k)) <= n}
    IN  SubSeq(text, 1, CHOOSE k \in ks : \A j \in ks : j <= k)

\* C8: with max_length = M and a selection whose removal leaves R < M UTF-16
\* units, replace_selection(text) inserts exactly the longest prefix of text, cut
\* at a code-point boundary, of at most M - R units; and no call takes the
\* content from utf16_len() <= M to utf16_len() > M
C8_TruncatesAtLimit ==
    ~panicked /\ IsSome(max_length) =>
        /\ \A text \in InsertTexts16 :
               (has_selection(Self) /\ SelectionWellFormed(Self)
                   /\ RemainingUtf16(Self) < Unwrap(max_length)) =>
               LET r == replace_selection(Self, text)
                   s == selection_start_offset(Self)
                   e == selection_end_offset(Self)
                   kept == LongestPrefix(text, Unwrap(max_length) - RemainingUtf16(Self))
               IN  /\ ~r.panic
                   /\ get_content(r) =
                          SliceTo(get_content(Self), s) \o kept
                              \o SliceFrom(get_content(Self), e)
        /\ (hist.op # "none" /\ hist.pre_utf16_len <= Unwrap(max_length)) =>
               utf16_len(Self) <= Unwrap(max_length)

NewlineCount(text) == Cardinality({k \in 1..Len(text) : text[k] = "NL"})

\* C10: with a selection and no max_length, replace_selection(text) yields the
\* content old[0..s] + text + old[e..], puts the edit point at byte offset
\* s + len(text), leaves no selection and direction None; in multiline mode the
\* number of lines is old - (end.line - start.line) + the number of '\n' in text
C10_ReplaceSplices ==
    (~panicked /\ has_selection(Self) /\ max_length = None
        /\ SlicePoint(Self, selection_start(Self))
        /\ SlicePoint(Self, selection_end(Self))) =>
        \A text \in InsertTexts \cup {<<>>} :
            LET r == replace_selection(Self, text)
                s == selection_start_offset(Self)
                e == selection_end_offset(Self)
            IN  /\ ~r.panic
                /\ get_content(r) =
                       SliceTo(get_content(Self), s) \o text
                           \o SliceFrom(get_content(Self), e)
                /\ PointInBounds(r, r.edit_point)
                /\ text_point_to_offset(r, r.edit_point) = s + StrLen(text)
                /\ ~has_selection(r)
                /\ r.selection_direction = "None"
                /\ multiline =>
                       Len(r.lines) = Len(lines)
                           - (selection_end(Self).line - selection_start(Self).line)
                           + NewlineCount(text)

(***************************************************************************)
(* Reachable states in which the cases of the claims happen.               *)
(***************************************************************************)
\* a selection between distinct points of a two-line buffer, the caret past line 0
C2_Witness ==
    /\ ~panicked /\ multiline /\ Len(lines) >= 2
    /\ IsSome(selection_origin)
    /\ Unwrap(selection_origin) # edit_point
    /\ edit_point.line >= 1 /\ edit_point.index >= 1

\* a single-line input in which "a\na" was inserted: one line, the caret after it
C4_Witness ==
    /\ ~panicked /\ ~multiline /\ Len(lines) = 1
    /\ lines[1] = <<"a", "NL", "a">>
    /\ edit_point = TextPoint(0, 3)

\* a buffer of three lines, one of them empty, whose last offset maps to its last line
C6_Witness ==
    /\ Len(lines) >= 3
    /\ \E i \in 1..Len(lines) : lines[i] = <<>>
    /\ \E i \in 1..Len(lines) : lines[i] # <<>>
    /\ offset_to_text_point(Self, len(Self)).line = Len(lines) - 1
    /\ offset_to_text_point(Self, len(Self) - 1).line < Len(lines) - 1

\* a multiline buffer that the first set_content(get_content(), true) changes:
\* it splits a line at a '\r' and clamps the edit point
C7_Witness ==
    LET t1 == set_content(Self, get_content(Self), TRUE)
    IN  /\ ~panicked /\ multiline
        /\ Len(t1.lines) > Len(lines)
        /\ t1.edit_point # edit_point

\* an insertion cut short by max_length between code points: "GG" (4 code units)
\* offered to an empty input with max_length 3 leaves "G" (2 code units)
C8_Witness ==
    /\ ~panicked /\ max_length = Some(3)
    /\ hist.op = "insert_string"
    /\ hist.text = <<"G", "G">>
    /\ hist.pre_utf16_len = 0
    /\ lines = <<<<"G">>>>
    /\ edit_point = TextPoint(0, 4)

C10_Witness ==
    /\ ~panicked /\ has_selection(Self) /\ max_length = None /\ multiline
    /\ SelectionWellFormed(Self)
    /\ selection_start(Self).line < selection_end(Self).line
    /\ selection_start(Self).index > 0
    /\ Len(replace_selection(Self, <<"a", "NL", "a">>).lines) = Len(lines)

(***************************************************************************)
(* Insertion and deletion at the caret.                                    *)
(***************************************************************************)
\* the texts insert_string is applied to in the claims about it
SplicedTexts == InsertTexts \cup {<<>>, <<"a", "E">>}

\* r is the state after inserting s at the caret of t: the content is the old one
\* with s spliced in at the old edit-point offset, the edit point is just after s,
\* and there is no selection
InsertedAtCaret(t, s, r) ==
    LET o == text_point_to_offset(t, t.edit_point)
    IN  /\ ~r.panic
        /\ get_content(r) = SliceTo(get_content(t), o) \o s \o SliceFrom(get_content(t), o)
        /\ PointInBounds(r, r.edit_point)
        /\ text_point_to_offset(r, r.edit_point) = o + StrLen(s)
        /\ ~has_selection(r)

\* C11: with no selection and no max_length, insert_string(s) and insert_char(ch)
\* splice the text into the content at the old edit-point offset, advance the
\* edit point to just after it, and leave no selection
C11_InsertAtCaret ==
    (~panicked /\ ~has_selection(Self) /\ max_length = None
        /\ SlicePoint(Self, edit_point)) =>
        /\ \A s \in SplicedTexts : InsertedAtCaret(Self, s, insert_string(Self, s))
        /\ \A ch \in Char : InsertedAtCaret(Self, <<ch>>, insert_char(Self, ch))

\* a caret inside the second line of a multiline buffer, with text after it, where
\* inserting "a\na" adds a line and moves the caret onto it
C11_Witness ==
    /\ ~panicked /\ ~has_selection(Self) /\ max_length = None /\ multiline
    /\ SlicePoint(Self, edit_point)
    /\ edit_point.line >= 1
    /\ edit_point.index < StrLen(Line(Self, edit_point.line))
    /\ LET r == insert_string(Self, <<"a", "NL", "a">>)
       IN  /\ Len(r.lines) = Len(lines) + 1
           /\ r.edit_point = TextPoint(edit_point.line + 1, 1)

\* the unit next to the caret of t in direction dir, as the byte range [from, to)
\* of the content and the number of line breaks in it
UnitAtCaret(t, dir) ==
    LET l == t.edit_point.line
        i == t.edit_point.index
        o == text_point_to_offset(t, t.edit_point)
    IN  IF dir = "Backward"
        THEN IF i > 0
             THEN [from |-> o - LastGraphemeLen(SliceTo(Line(t, l), i)), to |-> o,
                   breaks |-> 0]
             ELSE IF l > 0 THEN [from |-> o - 1, to |-> o, breaks |-> 1]
             ELSE [from |-> o, to |-> o, breaks |-> 0]
        ELSE IF i < StrLen(Line(t, l))
             THEN [from |-> o, to |-> o + FirstGraphemeLen(SliceFrom(Line(t, l), i)),
                   breaks |-> 0]
             ELSE IF l + 1 < Len(t.lines) THEN [from |-> o, to |-> o + 1, breaks |-> 1]
             ELSE [from |-> o, to |-> o, breaks |-> 0]

\* C12: with no selection (or a zero-width one) and no max_length, delete_char(dir)
\* removes exactly the unit next to the caret in direction dir (a grapheme cluster,
\* or the line break at a line boundary, joining the two lines; nothing at the
\* document start or end), puts the edit point at the deletion position and leaves
\* no selection
C12_DeleteOneUnit ==
    (~panicked /\ max_length = None /\ SlicePoint(Self, edit_point)
        /\ (~has_selection(Self) \/ selection_origin = Some(edit_point))) =>
        \A dir \in Directions :
            LET r == delete_char(Self, dir)
                u == UnitAtCaret(Self, dir)
            IN  /\ ~r.panic
                /\ get_content(r) = ContentWithout(Self, u.from, u.to)
                /\ Len(r.lines) = Len(lines) - u.breaks
                /\ PointInBounds(r, r.edit_point)
                /\ text_point_to_offset(r, r.edit_point) = u.from
                /\ ~has_selection(r)

(***************************************************************************)
(* Caret movement.                                                         *)
(***************************************************************************)
\* the line deltas adjust_vertical is applied with in the claims about it
VerticalDeltas == ((-MaxDelta)..MaxDelta) \cup {-PageLines, PageLines}

\* the caret adjust_vertical(d, _) is to reach from the edit point of t: the
\* document start, the document end, or line l + d at the column of the edit point
VerticalTarget(t, d) ==
    LET l == t.edit_point.line
        target == l + d
    IN  IF target < 0 THEN TextPoint(0, 0)
        ELSE IF target >= Len(t.lines)
        THEN TextPoint(Len(t.lines) - 1, StrLen(t.lines[Len(t.lines)]))
        ELSE LET N == CharsBefore(Line(t, l), t.edit_point.index)
                 to_line == Line(t, target)
             IN  TextPoint(target, StrLen(SubSeq(to_line, 1, Min(N, Len(to_line)))))

\* C13: in a multiline input adjust_vertical(d, NotSelected) clears the selection,
\* leaves the content unchanged and moves the caret to (0, 0) when l + d < 0, to
\* the end of the last line when l + d >= lines.len(), and otherwise to line l + d
\* at the byte length of its first N characters, N the number of characters before
\* the caret on line l, saturating at the length of the target line
C13_VerticalMove ==
    (~panicked /\ multiline /\ LineOk(Self, edit_point.line)) =>
        \A d \in VerticalDeltas :
            (LineOk(Self, edit_point.line + d) => SlicePoint(Self, edit_point)) =>
            LET r == adjust_vertical(Self, d, "NotSelected")
            IN  /\ ~r.panic
                /\ ~has_selection(r)
                /\ r.lines = lines
                /\ r.edit_point = VerticalTarget(Self, d)

\* a selection on the second line with the caret after its two-byte first character,
\* above the line "a\u00e9": one line up the caret is at index 1, after one character
C13_Witness ==
    /\ ~panicked /\ multiline /\ has_selection(Self)
    /\ edit_point = TextPoint(1, 2)
    /\ Line(Self, 0) = <<"a", "E">>
    /\ adjust_vertical(Self, -1, "NotSelected").edit_point = TextPoint(0, 1)
    /\ adjust_vertical(Self, -2, "NotSelected").edit_point = TextPoint(0, 0)
    /\ ~has_selection(adjust_vertical(Self, -1, "NotSelected"))

\* t with its selection collapsed for a move in direction dir: the edit point at
\* selection_start() (Backward) or selection_end() (Forward), no origin, direction
\* None, everything else as it was
Collapsed(t, dir) ==
    [t EXCEPT !.edit_point = IF dir = "Backward" THEN selection_start(t)
                             ELSE selection_end(t),
              !.selection_origin = None,
              !.selection_direction = "None"]

\* C14: called with NotSelected while a selection exists (a zero-width one
\* included), each of adjust_horizontal, adjust_horizontal_by_one,
\* adjust_horizontal_by_word, adjust_horizontal_to_line_end and
\* adjust_horizontal_to_limit only collapses the selection: the edit point becomes
\* the old selection_start() (backward) or selection_end() (forward), the origin is
\* dropped, the direction becomes None and nothing else changes
C14_CollapseOnly ==
    (~panicked /\ has_selection(Self)) =>
        /\ \A dir \in Directions :
               /\ adjust_horizontal_by_one(Self, dir, "NotSelected") = Collapsed(Self, dir)
               /\ adjust_horizontal_by_word(Self, dir, "NotSelected") = Collapsed(Self, dir)
               /\ adjust_horizontal_to_line_end(Self, dir, "NotSelected")
                      = Collapsed(Self, dir)
               /\ \A u \in BOOLEAN :
                      adjust_horizontal_to_limit(Self, dir, "NotSelected", u)
                          = Collapsed(Self, dir)
        /\ \A adjust \in (-MaxDelta)..MaxDelta :
               adjust_horizontal(Self, adjust, "NotSelected")
                   = Collapsed(Self, IF adjust < 0 THEN "Backward" ELSE "Forward")

\* a forward selection over text on the second line: a backward move would
\* otherwise leave the caret elsewhere than at the start of the selection
C14_Witness ==
    /\ ~panicked /\ has_selection(Self) /\ selection_direction = "Forward"
    /\ Unwrap(selection_origin).line = 1 /\ Unwrap(selection_origin).index >= 1
    /\ edit_point.line = 1 /\ edit_point.index > Unwrap(selection_origin).index + 1
    /\ adjust_horizontal_by_one(Self, "Backward", "NotSelected").edit_point
           = Unwrap(selection_origin)
    /\ adjust_horizontal_by_one(clear_selection(Self), "Backward", "NotSelected").edit_point
           # Unwrap(selection_origin)

\* the number of grapheme clusters of a line
GraphemeCount(s) ==
    Cardinality({k \in 1..Len(s) : k = 1 \/ ~GraphemeJoin(s[k - 1], s[k])})

\* the grapheme clusters of all lines plus the line breaks between them
StepsAcross(ls) == SumSeq([i \in 1..Len(ls) |-> GraphemeCount(ls[i]) + 1]) - 1

\* the end of the last line
DocumentEnd(t) == TextPoint(Len(t.lines) - 1, StrLen(t.lines[Len(t.lines)]))

\* C15: from the document end with no selection, each
\* adjust_horizontal_by_one(Backward, NotSelected) strictly decreases the edit
\* point's byte offset until the caret is at (0, 0), which it reaches after exactly
\* (grapheme clusters of all lines + line breaks) calls; every further call leaves
\* it at (0, 0); the content never changes.  Symmetrically for Forward from the
\* document start to the document end
C15_WalkReachesLimit ==
    hist.op = "walk" =>
        LET total == StepsAcross(hist.lines)
            off   == text_point_to_offset(Self, edit_point)
            goal  == IF hist.dir = "Backward" THEN TextPoint(0, 0) ELSE DocumentEnd(Self)
        IN  /\ ~panicked
            /\ lines = hist.lines
            /\ ~has_selection(Self)
            /\ PointInBounds(Self, edit_point)
            /\ hist.steps >= total => edit_point = goal
            /\ hist.steps < total => edit_point # goal
            /\ (hist.steps >= 1 /\ hist.steps <= total) =>
                   IF hist.dir = "Backward" THEN off < hist.prev ELSE off > hist.prev

\* the backward walk over three lines, one empty and one ending in a cluster of two
\* code points, has just reached (0, 0) with its last needed call
C15_Witness ==
    /\ hist.op = "walk" /\ hist.dir = "Backward" /\ ~panicked
    /\ Len(lines) = 3
    /\ \E i \in 1..Len(lines) : GraphemeCount(lines[i]) < Len(lines[i])
    /\ hist.steps = StepsAcross(lines)
    /\ hist.prev > 0
    /\ edit_point = TextPoint(0, 0)

\* x holds a code point that is alphabetic or numeric
AnyAlphanumeric(x) == \E j \in 1..Len(x) : IsAlphanumeric(x[j])

\* k code points into input lies a boundary between two word-segmented units
UnitBoundary(input, k) ==
    k = 0 \/ k = Len(input) \/ (k \in 1..(Len(input) - 1) /\ WordBreak(input, k))

\* the bytes of the units of input gone over from its start, up to and including
\* the first unit that holds an alphanumeric character; all of input if none does
BytesOverUnitsForward(input) ==
    LET stops == {k \in 1..Len(input) :
                     UnitBoundary(input, k) /\ AnyAlphanumeric(SubSeq(input, 1, k))}
    IN  IF stops = {} THEN StrLen(input)
        ELSE StrLen(SubSeq(input, 1, CHOOSE k \in stops : \A j \in stops : k <= j))

\* the same from the end of input backward
BytesOverUnitsBackward(input) ==
    LET stops == {k \in 0..(Len(input) - 1) :
                     UnitBoundary(input, k)
                         /\ AnyAlphanumeric(SubSeq(input, k + 1, Len(input)))}
    IN  IF stops = {} THEN StrLen(input)
        ELSE StrLen(SubSeq(input, (CHOOSE k \in stops : \A j \in stops : k >= j) + 1,
                           Len(input)))

\* where adjust_horizontal_by_word(dir, _) is to put the caret of t
WordTarget(t, dir) ==
    LET l == t.edit_point.line
        i == t.edit_point.index
    IN  IF dir = "Backward"
        THEN IF i = 0 /\ l > 0
             THEN TextPoint(l - 1, StrLen(Line(t, l - 1))
                                       - BytesOverUnitsBackward(Line(t, l - 1)))
             ELSE TextPoint(l, i - BytesOverUnitsBackward(SliceTo(Line(t, l), i)))
        ELSE IF i = StrLen(Line(t, l)) /\ l + 1 < Len(t.lines)
             THEN TextPoint(l + 1, BytesOverUnitsForward(Line(t, l + 1)))
             ELSE TextPoint(l, i + BytesOverUnitsForward(SliceFrom(Line(t, l), i)))

\* C16: with no selection, adjust_horizontal_by_word(dir, NotSelected) moves the
\* caret over word-segmented units in direction dir and stops right after the first
\* unit that holds an alphanumeric character, or at the line's start / end when no
\* unit does; from a line boundary with a neighbouring line in direction dir the
\* scan is done in that line.  The content and the absence of a selection are kept
C16_WordMove ==
    (~panicked /\ ~has_selection(Self) /\ SlicePoint(Self, edit_point)) =>
        \A dir \in Directions :
            LET r == adjust_horizontal_by_word(Self, dir, "NotSelected")
            IN  /\ ~r.panic
                /\ r.lines = lines
                /\ ~has_selection(r)
                /\ r.edit_point = WordTarget(Self, dir)

\* the caret at the end of the line "\u00e9 a" goes back over "a" only
C16_Witness ==
    /\ ~panicked /\ ~has_selection(Self) /\ multiline
    /\ Line(Self, 1) = <<"E", "SP", "a">>
    /\ edit_point = TextPoint(1, 4)
    /\ adjust_horizontal_by_word(Self, "Backward", "NotSelected").edit_point
           = TextPoint(1, 3)

(***************************************************************************)
(* set_selection_range.                                                    *)
(***************************************************************************)
\* C17: for all start, end and all three directions set_selection_range does not
\* fail; afterwards selection_end_offset() = min(end, len()),
\* selection_start_offset() = min(start, min(end, len())), has_selection() holds
\* and selection_direction = direction; for Backward the edit point is the start
\* endpoint and the origin the end endpoint, otherwise the reverse
C17_RangeClamped ==
    ~panicked =>
        \A start \in 0..(len(Self) + 2), end \in 0..(len(Self) + 2),
           dir \in SelectionDirections :
            LET r  == set_selection_range(Self, start, end, dir)
                e1 == Min(end, len(Self))
                s1 == Min(start, e1)
                start_point == IF dir = "Backward" THEN r.edit_point
                               ELSE Unwrap(r.selection_origin)
                end_point   == IF dir = "Backward" THEN Unwrap(r.selection_origin)
                               ELSE r.edit_point
            IN  /\ ~r.panic
                /\ r.lines = lines
                /\ has_selection(r)
                /\ r.selection_direction = dir
                /\ selection_end_offset(r) = e1
                /\ selection_start_offset(r) = s1
                /\ PointInBounds(r, start_point) /\ PointInBounds(r, end_point)
                /\ text_point_to_offset(r, start_point) = s1
                /\ text_point_to_offset(r, end_point) = e1

\* a buffer of two lines on which the range (2, 5) spans the line break, a start
\* beyond the end is clamped to the end, and both beyond the length land on the
\* end of the last line
C17_Witness ==
    /\ ~panicked /\ IsSome(selection_origin) /\ Len(lines) = 2 /\ len(Self) >= 6
    /\ LET r == set_selection_range(Self, 2, 5, "Forward")
       IN  /\ r.selection_origin = Some(TextPoint(0, 2))
           /\ r.edit_point.line = 1
    /\ LET r == set_selection_range(Self, 5, 2, "Backward")
       IN  r.edit_point = TextPoint(0, 2) /\ r.selection_origin = Some(TextPoint(0, 2))
    /\ LET r == set_selection_range(Self, len(Self) + 1, len(Self) + 2, "None")
       IN  r.edit_point = DocumentEnd(Self) /\ r.selection_origin = Some(DocumentEnd(Self))

(***************************************************************************)
(* Key dispatch.                                                           *)
(***************************************************************************)
\* the platform's primary modifier and the two it is to exclude
PrimaryModifier == IF macos THEN "SUPER" ELSE "CONTROL"

ExcludedModifiers == {"CONTROL", "ALT", "SUPER"} \ {PrimaryModifier}

\* the primary modifier is held and neither of the other two is
PrimaryOnly(mods) == PrimaryModifier \in mods /\ mods \cap ExcludedModifiers = {}

\* what select-all (A), copy (C) and paste (V) do to t and return
ShortcutResult(t, key) ==
    CASE key = "A" -> [t |-> select_all(t), reaction |-> "RedrawSelection"]
      [] key = "C" -> [t |-> CopyArm(t), reaction |-> "DispatchInput"]
      [] key = "V" -> [t |-> insert_string(t, t.clipboard), reaction |-> "DispatchInput"]

\* the event is the line-start shortcut, which shares the key A
LineStartShortcut(key, mods) ==
    key = "A" /\ ({"CONTROL", "ALT"} \subseteq mods \/ (macos /\ mods = {"CONTROL"}))

\* C18: a non-printable A, C or V key event is select-all, copy or paste if and only
\* if the platform's primary modifier (Control; Super on the Mac) is held and
\* neither of the other two of Control, Alt and Super is; otherwise it is not
\* treated as that shortcut
C18_ShortcutModifiers ==
    ~panicked =>
        \A key \in {"A", "C", "V"}, mods \in SUBSET Modifiers :
            LET r == handle_keydown_aux(Self, None, key, mods)
            IN  /\ PrimaryOnly(mods) => r = ShortcutResult(Self, key)
                /\ (~PrimaryOnly(mods) /\ ~LineStartShortcut(key, mods)) =>
                       r = [t |-> Self, reaction |-> "Nothing"]

\* the selection, if any, is a range of text, and the edit point a slice point
EditableState(t) ==
    /\ SlicePoint(t, t.edit_point)
    /\ has_selection(t) => SelectionWellFormed(t)

\* C19: a non-printable Enter or KeypadEnter on a single-line input returns
\* TriggerDefaultAction and changes nothing; on a multiline input it returns
\* DispatchInput and, with no max_length, puts one line break in place of the
\* selection (at the caret when there is none): lines.len() grows by one when
\* there is no selection, and the edit point is at the start of the new line
C19_EnterKey ==
    ~panicked =>
        \A key \in EnterKeys, mods \in SUBSET Modifiers :
            LET r == handle_keydown_aux(Self, None, key, mods)
                s == selection_start_offset(Self)
                e == selection_end_offset(Self)
            IN  IF ~multiline
                THEN r = [t |-> Self, reaction |-> "TriggerDefaultAction"]
                ELSE /\ r.reaction = "DispatchInput"
                     /\ (max_length = None /\ EditableState(Self)) =>
                            /\ ~r.t.panic
                            /\ get_content(r.t) =
                                   SliceTo(get_content(Self), s) \o <<"NL">>
                                       \o SliceFrom(get_content(Self), e)
                            /\ ~has_selection(r.t)
                            /\ r.t.edit_point = TextPoint(selection_start(Self).line + 1, 0)
                            /\ ~has_selection(Self) =>
                                   /\ Len(r.t.lines) = Len(lines) + 1
                                   /\ r.t.edit_point = TextPoint(edit_point.line + 1, 0)

\* a multiline input with the caret after text and no selection, and one with a
\* selection over text, are both reachable; here the first: Enter splits the line
C19_Witness ==
    /\ ~panicked /\ multiline /\ max_length = None /\ ~has_selection(Self)
    /\ edit_point.index >= 1 /\ SlicePoint(Self, edit_point)
    /\ LET r == handle_keydown_aux(Self, None, "Enter", {})
       IN  /\ r.reaction = "DispatchInput"
           /\ Len(r.t.lines) = Len(lines) + 1
           /\ r.t.edit_point = TextPoint(edit_point.line + 1, 0)

\* the navigation key events without Shift: arrows, Alt + arrows, Home / End,
\* PageUp / PageDown and the Control + Alt word and line shortcuts
NavigationActions ==
    {KeyEvent(None, k, {}) : k \in NavigationKeys}
    \cup {KeyEvent(None, k, {"ALT"}) : k \in {"Left", "Right"}}
    \cup {KeyEvent(None, k, {"CONTROL", "ALT"}) : k \in {"A", "B", "E", "F"}}

\* C20: for every navigation key action Shift alone decides the selection mode:
\* with Shift the action leaves a selection anchored at the previous origin, or at
\* the previous caret when there was none; without Shift it leaves no selection
C20_ShiftDecidesSelection ==
    (~panicked /\ EditableState(Self)) =>
        \A e \in NavigationActions :
            LET with    == handle_keydown_aux(Self, None, e.key, e.mods \cup {"SHIFT"}).t
                without == handle_keydown_aux(Self, None, e.key, e.mods).t
            IN  /\ ~with.panic =>
                       with.selection_origin = Some(selection_origin_or_edit_point(Self))
                /\ ~without.panic => ~has_selection(without)

(***************************************************************************)
(* Moves to the line end and to the document limit.                        *)
(***************************************************************************)
\* the call with `select` does not short-circuit on a selection collapse in t
NoShortCircuit(t, select) == select = "Selected" \/ ~has_selection(t)

\* C21: adjust_horizontal_to_line_end(dir, select), when it does not short-circuit
\* on a selection collapse, keeps edit_point.line and the content, sets
\* edit_point.index to 0 (Backward) or to the byte length of the current line
\* (Forward), and with Selected leaves the selection origin at the previous origin,
\* or at the previous caret when there was none
C21_LineEndStaysOnLine ==
    (~panicked /\ SlicePoint(Self, edit_point)) =>
        \A dir \in Directions, select \in Selections :
            NoShortCircuit(Self, select) =>
            LET r == adjust_horizontal_to_line_end(Self, dir, select)
            IN  /\ ~r.panic
                /\ r.lines = lines
                /\ r.edit_point =
                       TextPoint(edit_point.line,
                                 IF dir = "Backward" THEN 0
                                 ELSE StrLen(Line(Self, edit_point.line)))
                /\ select = "Selected" =>
                       r.selection_origin = Some(selection_origin_or_edit_point(Self))

(***************************************************************************)
(* set_content.                                                            *)
(***************************************************************************)
\* C22: set_content(text, update_cursor) clears any selection for both values of
\* update_cursor: afterwards has_selection() is false and selection_start() =
\* selection_end() = edit_point; with update_cursor = true the edit point is the
\* old one clamped to (min(line, last line), min(index, that line's length)), with
\* update_cursor = false it is exactly the old one
C22_SetContentClearsSelection ==
    ~panicked =>
        \A text \in SetContentTexts \cup InsertTexts, update_cursor \in BOOLEAN :
            LET r == set_content(Self, text, update_cursor)
                l == Min(edit_point.line, Len(r.lines) - 1)
            IN  /\ ~r.panic
                /\ ~has_selection(r)
                /\ selection_start(r) = r.edit_point
                /\ selection_end(r) = r.edit_point
                /\ r.edit_point =
                       IF update_cursor
                       THEN TextPoint(l, Min(edit_point.index, StrLen(Line(r, l))))
                       ELSE edit_point

\* the state set_content(text, update_cursor) is to leave: no selection, and the
\* edit point clamped into the new lines (update_cursor) or as it was
ContentSet(t, r, update_cursor) ==
    LET l == Min(t.edit_point.line, Len(r.lines) - 1)
    IN  /\ ~r.panic
        /\ ~has_selection(r)
        /\ selection_start(r) = r.edit_point
        /\ selection_end(r) = r.edit_point
        /\ r.edit_point =
               IF update_cursor
               THEN TextPoint(l, Min(t.edit_point.index, StrLen(Line(r, l))))
               ELSE t.edit_point

\* C22 (amended): as C22, except that with update_cursor = false and an old edit
\* point that does not lie within the new lines the call fails its assertion in a
\* build with debug assertions; without them the edit point is the old one, left
\* out of bounds
C22_SetContentClearsSelectionOrAsserts ==
    ~panicked =>
        \A text \in SetContentTexts \cup InsertTexts, update_cursor \in BOOLEAN :
            LET r == set_content(Self, text, update_cursor)
                fits == PointInBounds([Self EXCEPT !.lines = ContentLines(Self, text)],
                                      edit_point)
            IN  IF ~update_cursor /\ debug_assertions /\ ~fits
                THEN r.panic
                ELSE ContentSet(Self, r, update_cursor)

\* a selection with the caret past index 0 in a build with debug assertions:
\* set_content("", true) clears it and clamps the caret to (0, 0), and
\* set_content("", false) fails the assertion
C22_Witness ==
    /\ ~panicked /\ debug_assertions /\ has_selection(Self)
    /\ Unwrap(selection_origin) # edit_point
    /\ edit_point.index >= 1
    /\ set_content(Self, <<>>, FALSE).panic
    /\ LET r == set_content(Self, <<>>, TRUE)
       IN  ~r.panic /\ ~has_selection(r) /\ r.edit_point = TextPoint(0, 0)

(***************************************************************************)
(* adjust_horizontal_to_limit.                                             *)
(***************************************************************************)
\* the start of the document (Backward) or the end of its last line (Forward)
Limit(t, dir) == IF dir = "Backward" THEN TextPoint(0, 0) ELSE DocumentEnd(t)

\* C23: adjust_horizontal_to_limit(dir, select, update_cursor = false) does nothing:
\* for both values of select, lines, edit_point, selection_origin and
\* selection_direction are unchanged, an existing selection is not even collapsed;
\* with update_cursor = true and no short-circuit the edit point becomes (0, 0)
\* for Backward and the end of the last line for Forward
C23_LimitWithoutCursorDoesNothing ==
    ~panicked =>
        \A dir \in Directions, select \in Selections :
            /\ adjust_horizontal_to_limit(Self, dir, select, FALSE) = Self
            /\ NoShortCircuit(Self, select) =>
                   adjust_horizontal_to_limit(Self, dir, select, TRUE).edit_point
                       = Limit(Self, dir)

\* t after the selection bookkeeping of a horizontal move: with NotSelected an
\* existing selection is collapsed; with Selected the origin is kept, or set to
\* the caret when there is none, and the direction becomes dir
SelectionAdjusted(t, dir, select) ==
    IF select = "Selected"
    THEN [t EXCEPT !.selection_origin = Some(selection_origin_or_edit_point(t)),
                   !.selection_direction = dir]
    ELSE IF has_selection(t) THEN Collapsed(t, dir) ELSE t

\* C23 (amended): with update_cursor = false the call still does the selection
\* bookkeeping of every horizontal move and nothing else: with NotSelected it
\* collapses an existing selection, with Selected it sets the origin (when there
\* is none) and the direction; it changes nothing only with NotSelected and no
\* selection.  With update_cursor = true and no short-circuit it does the same
\* and puts the edit point at (0, 0) for Backward and at the end of the last line
\* for Forward
C23_LimitWithoutCursorAdjustsSelection ==
    ~panicked =>
        \A dir \in Directions, select \in Selections :
            /\ adjust_horizontal_to_limit(Self, dir, select, FALSE)
                   = SelectionAdjusted(Self, dir, select)
            /\ NoShortCircuit(Self, select) =>
                   adjust_horizontal_to_limit(Self, dir, select, TRUE)
                       = [SelectionAdjusted(Self, dir, select) EXCEPT
                             !.edit_point = Limit(Self, dir)]
            /\ ~NoShortCircuit(Self, select) =>
                   adjust_horizontal_to_limit(Self, dir, select, TRUE)
                       = Collapsed(Self, dir)

\* a forward selection over text, the caret away from both limits: with
\* update_cursor = false and NotSelected the call collapses it, with Selected and
\* Backward it turns the direction
C23_Witness ==
    /\ ~panicked /\ has_selection(Self) /\ selection_direction = "Forward"
    /\ PointLe(Unwrap(selection_origin), edit_point)
    /\ Unwrap(selection_origin) # edit_point
    /\ edit_point # DocumentEnd(Self)
    /\ ~has_selection(adjust_horizontal_to_limit(Self, "Backward", "NotSelected", FALSE))
    /\ adjust_horizontal_to_limit(Self, "Backward", "NotSelected", FALSE).edit_point
           = Unwrap(selection_origin)
    /\ adjust_horizontal_to_limit(Self, "Backward", "Selected", FALSE).selection_direction
           = "Backward"

(***************************************************************************)
(* adjust_horizontal and the offset arithmetic.                            *)
(***************************************************************************)
\* the byte deltas that reach past both ends of the content
ByteDeltas(t) == (0 - (len(t) + 1)) .. (len(t) + 1)

\* the point at offset text_point_to_offset(p) + d, clamped to 0 .. len()
OffsetTarget(t, p, d) ==
    offset_to_text_point(t, Max(0, Min(len(t), text_point_to_offset(t, p) + d)))

\* C24: with no selection and a valid edit point p, adjust_horizontal(d,
\* NotSelected) puts the edit point at offset_to_text_point(clamp(
\* text_point_to_offset(p) + d, 0, len())) for every signed byte delta d, each
\* line break counting one unit; with Selected the caret lands on the same point
\* and the origin stays at p
C24_HorizontalIsOffsetArithmetic ==
    (~panicked /\ ~has_selection(Self) /\ SlicePoint(Self, edit_point)) =>
        \A d \in ByteDeltas(Self) :
            LET n == adjust_horizontal(Self, d, "NotSelected")
                r == adjust_horizontal(Self, d, "Selected")
            IN  /\ ~n.panic
                /\ n.edit_point = OffsetTarget(Self, edit_point, d)
                /\ n.lines = lines
                /\ ~r.panic
                /\ r.edit_point = OffsetTarget(Self, edit_point, d)
                /\ r.selection_origin = Some(edit_point)

(***************************************************************************)
(* The horizontal moves call by call.  A call of adjust_horizontal,        *)
(* adjust_horizontal_by_one, adjust_horizontal_by_word or delete_char is   *)
(* in flight while hist.op = "call": hist.pc names the function about to   *)
(* run, hist.adjust and hist.select are its arguments, hist.depth counts   *)
(* the recursive calls of adjust_horizontal made by                        *)
(* perform_horizontal_adjustment, hist.then tells delete_char's            *)
(* replace_selection is still to come, and hist.whole is the state the     *)
(* call yields as a whole.  Each step runs one function body up to its     *)
(* next call.                                                              *)
(***************************************************************************)
RecursionContents == {<<"a", "NL", "NL", "E", "M">>}

InitRecursion == InitWith(RecursionContents, {None}, {<<>>}, BOOLEAN, {FALSE})

Idle == hist.op = "none"

InFlight == hist.op = "call"

Frame(pc, adjust, select, then, whole) ==
    [op |-> "call", pc |-> pc, adjust |-> adjust, select |-> select, depth |-> 0,
     then |-> then, whole |-> whole]

\* the function at h.pc ends with t: the frames of perform_horizontal_adjustment
\* still open run their assert_ok_selection, then delete_char goes on to
\* replace_selection or the call returns; a panic unwinds the call.  The outcome
\* of a step is [t |-> the state, h |-> the call's record]
Ended(t, h) ==
    LET u == IF h.depth > 0 THEN assert_ok_selection(t) ELSE t
    IN  [t |-> u,
         h |-> IF ~u.panic /\ h.then = "replace_selection"
               THEN [h EXCEPT !.pc = "replace_selection", !.then = "return"]
               ELSE NoHist]

Goes(o) == DoWithin(o.t, o.h, len(o.t))

\* the adjust of adjust_horizontal_by_one: [panic |-> , val |-> ]
GraphemeShift(t, direction) ==
    IF ~LineOk(t, t.edit_point.line)
       \/ ~IsCharBoundary(Line(t, t.edit_point.line), t.edit_point.index)
    THEN [panic |-> TRUE, val |-> 0]
    ELSE LET current_line == Line(t, t.edit_point.line)
             g == IF direction = "Forward"
                  THEN FirstGraphemeLen(SliceFrom(current_line, t.edit_point.index))
                  ELSE LastGraphemeLen(SliceTo(current_line, t.edit_point.index))
         IN  [panic |-> FALSE,
              val |-> IF direction = "Forward"
                      THEN (IF g = 0 THEN 1 ELSE g)
                      ELSE (IF g = 0 THEN -1 ELSE 0 - g)]

\* adjust_horizontal_by_one up to its call of perform_horizontal_adjustment
ByOneFrom(t, direction, select, then, whole) ==
    LET h == Frame("perform_horizontal_adjustment", 0, select, then, whole)
        r == adjust_selection_for_horizontal_change(t, direction, select)
        s == GraphemeShift(r.t, direction)
    IN  IF r.cancel THEN Ended(r.t, h)
        ELSE IF s.panic THEN Ended(Panic(r.t), h)
        ELSE [t |-> r.t, h |-> [h EXCEPT !.adjust = s.val]]

\* adjust_horizontal_by_word up to its call of adjust_horizontal
ByWordFrom(t, direction, select, whole) ==
    LET h == Frame("adjust_horizontal", 0, select, "return", whole)
        r == adjust_selection_for_horizontal_change(t, direction, select)
        s == WordShift(r.t, direction)
    IN  IF r.cancel THEN Ended(r.t, h)
        ELSE IF s.panic THEN Ended(Panic(r.t), h)
        ELSE [t |-> r.t, h |-> [h EXCEPT !.adjust = s.val]]

\* delete_char up to its first call
DeleteCharFrom(t, dir, whole) ==
    IF ~IsSome(t.selection_origin) \/ t.selection_origin = Some(t.edit_point)
    THEN ByOneFrom(t, dir, "Selected", "replace_selection", whole)
    ELSE [t |-> t, h |-> Frame("replace_selection", 0, "Selected", "return", whole)]

\* adjust_horizontal up to its call of perform_horizontal_adjustment
AdjustHorizontalFrom(t, h) ==
    LET direction == IF h.adjust >= 0 THEN "Forward" ELSE "Backward"
        r == adjust_selection_for_horizontal_change(t, direction, h.select)
    IN  IF r.cancel THEN Ended(r.t, h)
        ELSE [t |-> r.t, h |-> [h EXCEPT !.pc = "perform_horizontal_adjustment"]]

\* the nested call made with the caret back on the line the step began on
Recurse_on_the_same_line(t, h, adjust) ==
    [t |-> [t EXCEPT !.edit_point.line = edit_point.line],
     h |-> [h EXCEPT !.pc = "adjust_horizontal", !.adjust = adjust, !.depth = @ + 1]]

\* the nested call of adjust_horizontal on t with the residual adjust
Recurse(t, h, adjust) ==
    [t |-> t,
     h |-> [h EXCEPT !.pc = "adjust_horizontal", !.adjust = adjust, !.depth = @ + 1]]

\* perform_horizontal_adjustment up to its call of adjust_horizontal, or to its end
PerformHorizontalAdjustmentFrom(t, h) ==
    LET adjust == h.adjust
    IN  IF adjust < 0
        THEN LET remaining == t.edit_point.index
             IN  IF Abs(adjust) > remaining /\ t.edit_point.line > 0
                 THEN LET t1 == adjust_vertical(t, -1, h.select)
                      IN  IF t1.panic THEN Ended(t1, h)
                          ELSE IF ~LineOk(t1, t1.edit_point.line)
                          THEN Ended(Panic(t1), h)
                          ELSE Recurse([t1 EXCEPT !.edit_point.index =
                                           current_line_length(t1)],
                                       h, adjust + remaining + 1)
                 ELSE Ended(assert_ok_selection(
                                [t EXCEPT !.edit_point.index =
                                    Max(0, t.edit_point.index + adjust)]), h)
        ELSE IF ~LineOk(t, t.edit_point.line) THEN Ended(Panic(t), h)
        ELSE IF t.debug_assertions /\ t.edit_point.index > current_line_length(t)
        THEN Ended(Panic(t), h)
        ELSE LET remaining == WrappingSub(current_line_length(t), t.edit_point.index)
             IN  IF adjust > remaining /\ Len(t.lines) > t.edit_point.line + 1
                 THEN LET t1 == adjust_vertical(t, 1, h.select)
                      IN  IF t1.panic THEN Ended(t1, h)
                          ELSE Recurse([t1 EXCEPT !.edit_point.index = 0],
                                       h, adjust - remaining - 1)
                 ELSE Ended(assert_ok_selection(
                                [t EXCEPT !.edit_point.index =
                                    Min(current_line_length(t),
                                        t.edit_point.index + adjust)]), h)

CallAdjustHorizontal ==
    /\ Idle
    /\ \E adjust \in (-MaxDelta)..MaxDelta, select \in Selections :
           \E whole \in {adjust_horizontal(Self, adjust, select)} :
               Goes([t |-> Self,
                     h |-> Frame("adjust_horizontal", adjust, select, "return", whole)])

CallAdjustHorizontalByOne ==
    /\ Idle
    /\ \E dir \in Directions, select \in Selections :
           \E o \in {ByOneFrom(Self, dir, select, "return",
                               adjust_horizontal_by_one(Self, dir, select))} :
               Goes(o)

CallAdjustHorizontalByWord ==
    /\ Idle
    /\ \E dir \in Directions, select \in Selections :
           \E o \in {ByWordFrom(Self, dir, select,
                                adjust_horizontal_by_word(Self, dir, select))} :
               Goes(o)

CallDeleteChar ==
    /\ Idle
    /\ get_content(Self) \in RecursionContents
    /\ ~IsSome(selection_origin) \/ selection_origin = Some(edit_point)
    /\ \E dir \in Directions :
           \E o \in {DeleteCharFrom(Self, dir, delete_char(Self, dir))} : Goes(o)

EnterAdjustHorizontal ==
    /\ InFlight /\ hist.pc = "adjust_horizontal"
    /\ \E o \in {AdjustHorizontalFrom(Self, hist)} : Goes(o)

EnterPerformHorizontalAdjustment ==
    /\ InFlight /\ hist.pc = "perform_horizontal_adjustment"
    /\ \E o \in {PerformHorizontalAdjustmentFrom(Self, hist)} : Goes(o)

EnterReplaceSelection ==
    /\ InFlight /\ hist.pc = "replace_selection"
    /\ \E o \in {Ended(replace_selection(Self, <<>>), hist)} : Goes(o)

\* a call in flight runs on: nothing suspends it
Running ==
    \/ EnterAdjustHorizontal
    \/ EnterPerformHorizontalAdjustment
    \/ EnterReplaceSelection

NextRecursion ==
    \/ CallAdjustHorizontal
    \/ CallAdjustHorizontalByOne
    \/ CallAdjustHorizontalByWord
    \/ CallDeleteChar
    \/ EnterAdjustHorizontal
    \/ EnterPerformHorizontalAdjustment
    \/ EnterReplaceSelection

SpecRecursion == InitRecursion /\ [][NextRecursion]_vars /\ WF_vars(Running)

\* the call that ends leaves the state the operation yields as a whole
StepwiseAgrees ==
    InFlight =>
        /\ (hist'.op = "none" /\ ~panicked') => ~hist.whole.panic /\ Self' = hist.whole
        /\ (hist'.op = "none" /\ panicked') => hist.whole.panic

\* the recursion of a call in flight has crossed at most lines.len() - 1 line
\* breaks
RecursionBounded ==
    (InFlight /\ hist.pc # "replace_selection") => hist.depth <= Len(lines) - 1

\* a recursive step changes the line by exactly one, towards the document
\* boundary on the side of the move
RecursionDescends ==
    (InFlight /\ hist'.op = "call" /\ hist'.depth = hist.depth + 1) =>
        edit_point'.line = edit_point.line + (IF hist.adjust < 0 THEN -1 ELSE 1)

\* C25: every operation runs to completion: the recursion between
\* adjust_horizontal and perform_horizontal_adjustment changes the line by
\* exactly one per recursive step, towards the document boundary, recurses at
\* most lines.len() - 1 times and ends, and every call of adjust_horizontal,
\* adjust_horizontal_by_one, adjust_horizontal_by_word and delete_char ends, in
\* the state the operation yields as a whole
C25_EveryCallRunsToCompletion ==
    /\ []RecursionBounded
    /\ [][RecursionDescends]_vars
    /\ [][StepwiseAgrees]_vars
    /\ InFlight ~> ~InFlight

\* a call that has crossed every line break of a buffer of three lines
C25_Witness ==
    /\ InFlight /\ ~panicked
    /\ Len(lines) >= 3 /\ hist.depth = Len(lines) - 1
    /\ hist.pc = "adjust_horizontal"

(***************************************************************************)
(* select_all.                                                             *)
(***************************************************************************)
\* C26: select_all selects the whole content in every reachable state, whatever
\* the selection direction was: afterwards sorted_selection_offsets_range() is
\* 0..len(), get_selection_text() is get_content() when the content is not
\* empty, and a following delete_char, in either direction and with no
\* max_length, leaves exactly one empty line with the edit point at (0, 0)
C26_SelectAllSelectsEverything ==
    ~panicked =>
        LET r == select_all(Self)
        IN  /\ ~r.panic
            /\ selection_start_offset(r) = 0
            /\ selection_end_offset(r) = len(Self)
            /\ len(Self) > 0 =>
                   get_selection_text(r) = [panic |-> FALSE, val |-> Some(get_content(Self))]
            /\ \A dir \in Directions :
                   LET d == delete_char([r EXCEPT !.max_length = None], dir)
                   IN  /\ ~d.panic
                       /\ d.lines = <<<<>>>>
                       /\ d.edit_point = TextPoint(0, 0)

(***************************************************************************)
(* Edits that max_length blocks.                                           *)
(***************************************************************************)
\* max_length blocks the replacement of t's selection: the length left after
\* removing the selection is already max_length or more
Blocked(t) ==
    /\ IsSome(t.max_length) /\ ~t.panic /\ has_selection(t)
    /\ ~selection_utf16_len(t).panic
    /\ utf16_len(t) - selection_utf16_len(t).val >= Unwrap(t.max_length)

\* the selection that insert_string hands to replace_selection
SelectionToReplace(t) ==
    IF IsSome(t.selection_origin) THEN t
    ELSE [t EXCEPT !.selection_origin = Some(t.edit_point)]

\* the selection that delete_char hands to replace_selection
SelectionToDelete(t, dir) ==
    IF ~IsSome(t.selection_origin) \/ t.selection_origin = Some(t.edit_point)
    THEN adjust_horizontal_by_one(t, dir, "Selected")
    ELSE t

\* r leaves the caret and the selection of the current state as they were
CaretAndSelectionKept(r) ==
    /\ ~r.panic
    /\ r.lines = lines
    /\ r.edit_point = edit_point
    /\ ~has_selection(Self) => ~has_selection(r)

\* C27: an insert_string, insert_char or delete_char call that changes no
\* content because max_length blocks it leaves the caret and the selection as
\* before: edit_point is unchanged and, if there was no selection before,
\* has_selection() is still false afterwards
C27_BlockedEditKeepsCaret ==
    ~panicked =>
        /\ Blocked(SelectionToReplace(Self)) =>
               /\ \A s \in InsertTexts : CaretAndSelectionKept(insert_string(Self, s))
               /\ \A ch \in {"a", "E"} : CaretAndSelectionKept(insert_char(Self, ch))
        /\ \A dir \in Directions :
               Blocked(SelectionToDelete(Self, dir)) =>
                   CaretAndSelectionKept(delete_char(Self, dir))

(***************************************************************************)
(* The reaction of handle_keydown_aux.                                     *)
(***************************************************************************)
\* the key events of SpecKeys and the letter keys pressed with a printable
\* character, with and without a command modifier
ReactionKeyEvents ==
    ShortcutKeyEvents \cup MovementKeyEvents \cup EditingKeyEvents
    \cup {KeyEvent(Some("a"), k, m) :
             k \in {"A", "C", "V", "Other"},
             m \in {{"CONTROL"}, {"SUPER"}, {"CONTROL", "ALT", "SUPER"}}}

\* C28: the reaction of handle_keydown_aux is faithful to what changed: an
\* event that changes get_content() returns DispatchInput; an event that returns
\* RedrawSelection leaves lines unchanged; an event that returns Nothing or
\* TriggerDefaultAction leaves the whole state and the clipboard unchanged; the
\* copy shortcut (primary modifier + C) leaves the TextInput state unchanged and
\* writes the clipboard only when the selected text is not empty
C28_ReactionFaithful ==
    ~panicked =>
        \A e \in ReactionKeyEvents :
            LET r == handle_keydown_aux(Self, e.printable, e.key, e.mods)
            IN  ~r.t.panic =>
                /\ get_content(r.t) # get_content(Self) => r.reaction = "DispatchInput"
                /\ r.reaction = "RedrawSelection" => r.t.lines = lines
                /\ r.reaction \in {"Nothing", "TriggerDefaultAction"} => r.t = Self
                /\ (e.key = "C" /\ PrimaryOnly(e.mods)) =>
                       /\ r.t = [Self EXCEPT !.clipboard = r.t.clipboard]
                       /\ r.t.clipboard # clipboard =>
                              /\ IsSome(get_selection_text(Self).val)
                              /\ r.t.clipboard = Unwrap(get_selection_text(Self).val)

\* a selection over text that the clipboard does not hold yet: the copy shortcut
\* writes it and changes nothing else; a key without an arm changes nothing
C28_Witness ==
    /\ ~panicked /\ has_selection(Self)
    /\ get_selection_text(Self) = [panic |-> FALSE, val |-> Some(<<"a">>)]
    /\ clipboard # <<"a">>
    /\ LET r == handle_keydown_aux(Self, None, "C", {PrimaryModifier})
       IN  /\ r.reaction = "DispatchInput"
           /\ r.t = [Self EXCEPT !.clipboard = <<"a">>]
    /\ handle_keydown_aux(Self, None, "Other", {}) = [t |-> Self, reaction |-> "Nothing"]

(***************************************************************************)
(* Fatal errors from the keyboard.                                         *)
(***************************************************************************)
\* C29: with debug assertions disabled, no sequence of handle_keydown_aux events
\* on a freshly constructed input reaches a fatal error: get_selection_text,
\* selection_utf16_len and replace_selection never slice a line or the line
\* vector with start > end or past its end
C29_NoFatalErrorFromKeys == ~debug_assertions => ~panicked
====
